---- MODULE Spec2Model ----
(***************************************************************************)
(* A model of the C++-subset compiler pipeline of this repository:        *)
(*   Lexer            (custom_programming/python/lexer.py)                *)
(*   Parser           (compiler/parser.py)                                *)
(*   SemanticAnalyzer (custom_programming/python/semantic_analyzer.py)    *)
(*   CodeGenerator    (custom_programming/python/code_generator.py)       *)
(*   CppCompiler.compile_source_api (compiler/main.py)                    *)
(*                                                                         *)
(* Each component has its own specification over its own variables; the   *)
(* variables of the other components stay at their idle values.           *)
(*   SpecLex   : Lexer.tokenize over character sequences                  *)
(*   SpecParse : Parser.parse over token sequences                        *)
(*   SpecSem   : SemanticAnalyzer.analyze over syntax trees               *)
(*   Spec      : compile_source_api, tokens to result, with the run of    *)
(*               the generated program                                    *)
(*                                                                         *)
(* Characters are one-character strings, source text and string values    *)
(* are sequences of characters.  Token.line and Token.column are          *)
(* diagnostics that no operation reads back; they are not modelled.       *)
(***************************************************************************)
EXTENDS Integers, Sequences, FiniteSets, TLC

VARIABLES
    source_code,   \* Lexer.source_code : sequence of characters
    position,      \* Lexer.position (0-based, as in the code)
    tokens,        \* the local `tokens` list of Lexer.tokenize
    lexPc,         \* "idle" | "scan" (in the main loop) | "done" (returned)
    lexIters,      \* iterations of the main loop of tokenize taken so far
    current,       \* Parser.current : index into tokens (0-based)
    declarations,  \* the local `declarations` list of Parser.parse
    parsePc,       \* "idle" | "loop" | "returned" | "raised"
    parseError,    \* the exception that has left Parser.parse, NONE if none
    parseIters,    \* iterations of the main loop of Parser.parse taken so far
    ast,           \* the Program that Parser.parse returned
    analyzer,      \* the SemanticAnalyzer: scope_stack, errors, current_function, ...
    semPc,         \* "idle" | "visit" (in visit_program) | "returned" | "raised"
    declIndex,     \* the declaration that visit_program visits next (1-based)
    analyzeResult, \* what analyze returned
    generated_code,\* CodeGenerator.generated_code, as the list of emitted lines
    genPc,         \* "idle" | "generated"
    run,           \* the state of the run of the generated program in exec()
    pending,       \* the statements of the running suite that are still to run
    handler,       \* the except-suite of the try statement entered, if any
    runPc,         \* "idle" | "running" | "exited" (SystemExit has left exec) |
                   \* "raised" | "finished" | "bound" (MaxRunSteps is used up)
    result,        \* the dict that compile_source_api has returned
    sys_stdout,    \* the stream that sys.stdout of the server's process is
    streams,       \* what has been written to each stream
    calls,         \* the calls of _compile_source_api on the server's threads
    previous,      \* what the earlier calls of compile_source_api have returned
    first_type,         \* the arguments of the calls of get_type_compatibility
    second_type,
    compatible     \* what get_type_compatibility has returned, call by call

lexVars == <<source_code, position, tokens, lexPc, lexIters>>
parseVars == <<current, declarations, parsePc, parseError, parseIters>>
semVars == <<ast, analyzer, semPc, declIndex, analyzeResult>>
genVars == <<generated_code, genPc>>
runVars == <<run, pending, handler, runPc>>
backVars == <<genVars, runVars, result>>
srvVars == <<sys_stdout, streams, calls>>

typeVars == <<first_type, second_type, compatible>>

vars == <<lexVars, parseVars, semVars, backVars, srvVars, previous, typeVars>>

\* ------------------------------------------------------------------------
\* Bounds
\* ------------------------------------------------------------------------
MaxSrcLen == 3
\* Iterations of the top-level loop of Parser.parse that are followed
MaxParseIters == 6
\* Statements in the generated function bodies of the analyzer's sources
MaxBodyStmts == 2

\* ------------------------------------------------------------------------
\* Generic helpers
\* ------------------------------------------------------------------------
NONE == "<None>"

RECURSIVE SeqsUpTo(_, _)
SeqsUpTo(S, n) ==
    IF n = 0 THEN {<<>>}
    ELSE LET shorter == SeqsUpTo(S, n - 1)
         IN  shorter \cup {Append(s, x) : s \in {t \in shorter : Len(t) = n - 1}, x \in S}

\* ------------------------------------------------------------------------
\* Lexer  (lexer.py)
\* ------------------------------------------------------------------------
WhitespaceChars == {" ", "\t", "\r"}
DigitChars == {"0", "1", "2", "3", "4", "5", "6", "7", "8", "9"}
AlphaChars ==
    {"a", "b", "c", "d", "e", "f", "g", "h", "i", "j", "k", "l", "m",
     "n", "o", "p", "q", "r", "s", "t", "u", "v", "w", "x", "y", "z",
     "A", "B", "C", "D", "E", "F", "G", "H", "I", "J", "K", "L", "M",
     "N", "O", "P", "Q", "R", "S", "T", "U", "V", "W", "X", "Y", "Z"}

isdigit(c) == c \in DigitChars
isalpha(c) == c \in AlphaChars
isalnum(c) == isalpha(c) \/ isdigit(c)

\* Lexer.keywords
Keywords ==
    [w \in {<<"i","n","t">>, <<"f","l","o","a","t">>, <<"d","o","u","b","l","e">>,
            <<"c","h","a","r">>, <<"b","o","o","l">>, <<"v","o","i","d">>,
            <<"l","o","n","g">>, <<"s","h","o","r","t">>,
            <<"u","n","s","i","g","n","e","d">>, <<"s","i","g","n","e","d">>,
            <<"i","f">>, <<"e","l","s","e">>, <<"w","h","i","l","e">>,
            <<"f","o","r">>, <<"r","e","t","u","r","n">>, <<"b","r","e","a","k">>,
            <<"c","o","n","t","i","n","u","e">>, <<"d","o">>, <<"t","r","u","e">>,
            <<"f","a","l","s","e">>, <<"i","n","c","l","u","d","e">>,
            <<"i","o","s","t","r","e","a","m">>,
            <<"n","a","m","e","s","p","a","c","e">>, <<"s","t","d">>,
            <<"u","s","i","n","g">>, <<"c","l","a","s","s">>,
            <<"s","t","r","u","c","t">>, <<"c","o","n","s","t">>,
            <<"e","n","u","m">>, <<"a","u","t","o">>, <<"n","e","w">>,
            <<"d","e","l","e","t","e">>, <<"s","w","i","t","c","h">>,
            <<"c","a","s","e">>, <<"d","e","f","a","u","l","t">>,
            <<"n","u","l","l","p","t","r">>} |->
       CASE w = <<"i","n","t">> -> "INT"
         [] w = <<"f","l","o","a","t">> -> "FLOAT"
         [] w = <<"d","o","u","b","l","e">> -> "DOUBLE"
         [] w = <<"c","h","a","r">> -> "CHAR"
         [] w = <<"b","o","o","l">> -> "BOOL"
         [] w = <<"v","o","i","d">> -> "VOID"
         [] w = <<"l","o","n","g">> -> "LONG"
         [] w = <<"s","h","o","r","t">> -> "SHORT"
         [] w = <<"u","n","s","i","g","n","e","d">> -> "UNSIGNED"
         [] w = <<"s","i","g","n","e","d">> -> "SIGNED"
         [] w = <<"i","f">> -> "IF"
         [] w = <<"e","l","s","e">> -> "ELSE"
         [] w = <<"w","h","i","l","e">> -> "WHILE"
         [] w = <<"f","o","r">> -> "FOR"
         [] w = <<"r","e","t","u","r","n">> -> "RETURN"
         [] w = <<"b","r","e","a","k">> -> "BREAK"
         [] w = <<"c","o","n","t","i","n","u","e">> -> "CONTINUE"
         [] w = <<"d","o">> -> "DO"
         [] w = <<"t","r","u","e">> -> "TRUE"
         [] w = <<"f","a","l","s","e">> -> "FALSE"
         [] w = <<"i","n","c","l","u","d","e">> -> "INCLUDE"
         [] w = <<"i","o","s","t","r","e","a","m">> -> "IOSTREAM"
         [] w = <<"n","a","m","e","s","p","a","c","e">> -> "NAMESPACE"
         [] w = <<"s","t","d">> -> "STD"
         [] w = <<"u","s","i","n","g">> -> "USING"
         [] w = <<"c","l","a","s","s">> -> "CLASS"
         [] w = <<"s","t","r","u","c","t">> -> "STRUCT"
         [] w = <<"c","o","n","s","t">> -> "CONST"
         [] w = <<"e","n","u","m">> -> "ENUM"
         [] w = <<"a","u","t","o">> -> "AUTO"
         [] w = <<"n","e","w">> -> "NEW"
         [] w = <<"d","e","l","e","t","e">> -> "DELETE"
         [] w = <<"s","w","i","t","c","h">> -> "SWITCH"
         [] w = <<"c","a","s","e">> -> "CASE"
         [] w = <<"d","e","f","a","u","l","t">> -> "DEFAULT"
         [] w = <<"n","u","l","l","p","t","r">> -> "NULLPTR"]

\* Lexer.single_char_tokens
SingleCharTokens ==
    [c \in {"+", "-", "*", "/", "%", "=", "<", ">", "!", ";", ",", "(", ")",
            "{", "}", "[", "]", ".", "#", "&", ":"} |->
       CASE c = "+" -> "PLUS"        [] c = "-" -> "MINUS"
         [] c = "*" -> "MULTIPLY"    [] c = "/" -> "DIVIDE"
         [] c = "%" -> "MODULO"      [] c = "=" -> "ASSIGN"
         [] c = "<" -> "LESS_THAN"   [] c = ">" -> "GREATER_THAN"
         [] c = "!" -> "LOGICAL_NOT" [] c = ";" -> "SEMICOLON"
         [] c = "," -> "COMMA"       [] c = "(" -> "LEFT_PAREN"
         [] c = ")" -> "RIGHT_PAREN" [] c = "{" -> "LEFT_BRACE"
         [] c = "}" -> "RIGHT_BRACE" [] c = "[" -> "LEFT_BRACKET"
         [] c = "]" -> "RIGHT_BRACKET" [] c = "." -> "DOT"
         [] c = "#" -> "HASH"        [] c = "&" -> "AMPERSAND"
         [] c = ":" -> "COLON"]

\* The two-character operators of Lexer.tokenize, in the order of its elif chain
TwoCharTokens ==
    [w \in {<<"=","=">>, <<"!","=">>, <<"<","=">>, <<">","=">>, <<"&","&">>,
            <<"|","|">>, <<"+","+">>, <<"-","-">>, <<"-",">">>, <<":",":">>,
            <<"<","<">>} |->
       CASE w = <<"=","=">> -> "EQUALS"
         [] w = <<"!","=">> -> "NOT_EQUALS"
         [] w = <<"<","=">> -> "LESS_EQUAL"
         [] w = <<">","=">> -> "GREATER_EQUAL"
         [] w = <<"&","&">> -> "LOGICAL_AND"
         [] w = <<"|","|">> -> "LOGICAL_OR"
         [] w = <<"+","+">> -> "INCREMENT"
         [] w = <<"-","-">> -> "DECREMENT"
         [] w = <<"-",">">> -> "ARROW"
         [] w = <<":",":">> -> "SCOPE_RESOLUTION"
         [] w = <<"<","<">> -> "LEFT_SHIFT"]

Token(type, value) == [type |-> type, value |-> value]

\* Lexer.current_char / Lexer.peek_char at read position p of source s
char_at(s, p) == IF p >= Len(s) THEN NONE ELSE s[p + 1]
current_char(s, p) == char_at(s, p)
peek_char(s, p) == char_at(s, p + 1)

\* Lexer.advance: the read position after one advance
advance(s, p) == IF p < Len(s) THEN p + 1 ELSE p

\* The characters of s from position p up to, not including, position q
Slice(s, p, q) == SubSeq(s, p + 1, q)

\* Lexer.skip_whitespace: the position after it
RECURSIVE skip_whitespace(_, _)
skip_whitespace(s, p) ==
    IF current_char(s, p) # NONE /\ current_char(s, p) \in WhitespaceChars
    THEN skip_whitespace(s, advance(s, p))
    ELSE p

RECURSIVE SkipLine(_, _)
SkipLine(s, p) ==
    IF current_char(s, p) # NONE /\ current_char(s, p) # "\n"
    THEN SkipLine(s, advance(s, p))
    ELSE p

RECURSIVE SkipBlock(_, _)
SkipBlock(s, p) ==
    IF current_char(s, p) = NONE THEN p
    ELSE IF current_char(s, p) = "*" /\ peek_char(s, p) = "/"
         THEN advance(s, advance(s, p))
         ELSE SkipBlock(s, advance(s, p))

\* skip_comment without its multi-line branch
skip_comment_single_line_only(s, p) ==
    IF current_char(s, p) = "/" /\ peek_char(s, p) = "/" THEN SkipLine(s, p) ELSE p

\* Lexer.skip_comment: the position after it
skip_comment(s, p) ==
    IF current_char(s, p) = "/" /\ peek_char(s, p) = "/" THEN SkipLine(s, p)
    ELSE IF current_char(s, p) = "/" /\ peek_char(s, p) = "*"
         THEN SkipBlock(s, advance(s, advance(s, p)))
         ELSE p

\* Lexer.read_string_literal: [pos, value] after reading the literal whose
\* opening quote is at p
RECURSIVE ReadStringBody(_, _, _, _)
ReadStringBody(s, p, quote_char, value) ==
    IF current_char(s, p) # NONE /\ current_char(s, p) # quote_char
    THEN IF current_char(s, p) = "\\"
         THEN LET p1 == advance(s, p)
                  v1 == Append(value, "\\")
              IN  IF current_char(s, p1) # NONE
                  THEN ReadStringBody(s, advance(s, p1), quote_char,
                                      Append(v1, current_char(s, p1)))
                  ELSE ReadStringBody(s, p1, quote_char, v1)
         ELSE ReadStringBody(s, advance(s, p), quote_char,
                             Append(value, current_char(s, p)))
    ELSE IF current_char(s, p) = quote_char
         THEN [pos |-> advance(s, p), value |-> Append(value, quote_char)]
         ELSE [pos |-> p, value |-> value]

read_string_literal(s, p) ==
    ReadStringBody(s, advance(s, p), current_char(s, p), <<current_char(s, p)>>)

\* Lexer.read_number: [pos, value, type]
RECURSIVE ReadNumberBody(_, _, _, _)
ReadNumberBody(s, p, value, type) ==
    IF current_char(s, p) # NONE /\ (isdigit(current_char(s, p)) \/ current_char(s, p) = ".")
    THEN ReadNumberBody(s, advance(s, p), Append(value, current_char(s, p)),
                        IF current_char(s, p) = "." THEN "FLOAT_LITERAL" ELSE type)
    ELSE [pos |-> p, value |-> value, type |-> type]

read_number(s, p) == ReadNumberBody(s, p, <<>>, "INTEGER_LITERAL")

\* Lexer.read_identifier: [pos, value]
RECURSIVE ReadIdentifierBody(_, _, _)
ReadIdentifierBody(s, p, value) ==
    IF current_char(s, p) # NONE /\ (isalnum(current_char(s, p)) \/ current_char(s, p) = "_")
    THEN ReadIdentifierBody(s, advance(s, p), Append(value, current_char(s, p)))
    ELSE [pos |-> p, value |-> value]

read_identifier(s, p) == ReadIdentifierBody(s, p, <<>>)

StdWord == <<"s","t","d">>
StdPrefix == <<"s","t","d",":",":">>

\* The identifier branch of Lexer.tokenize (lines 311-338): [pos, toks]
LexIdentifier(s, p) ==
    LET id == read_identifier(s, p)
    IN  IF id.value = StdWord /\ current_char(s, id.pos) = ":" /\ peek_char(s, id.pos) = ":"
        THEN LET p2 == advance(s, advance(s, id.pos))
             IN  IF current_char(s, p2) # NONE
                    /\ (isalpha(current_char(s, p2)) \/ current_char(s, p2) = "_")
                 THEN LET std_id == read_identifier(s, p2)
                          full_value == StdPrefix \o std_id.value
                      IN  [pos |-> std_id.pos,
                           toks |-> <<Token(CASE std_id.value = <<"c","o","u","t">> -> "STD_COUT"
                                              [] std_id.value = <<"e","n","d","l">> -> "STD_ENDL"
                                              [] std_id.value = <<"s","t","r","i","n","g">> -> "STD_STRING"
                                              [] OTHER -> "IDENTIFIER",
                                            full_value)>>]
                 ELSE [pos |-> p2,
                       toks |-> <<Token("STD", id.value), Token("SCOPE_RESOLUTION", <<":",":">>)>>]
        ELSE [pos |-> id.pos,
              toks |-> <<Token(IF id.value \in DOMAIN Keywords THEN Keywords[id.value]
                                                              ELSE "IDENTIFIER",
                               id.value)>>]

\* One iteration of the main loop of Lexer.tokenize (lines 277-407), entered
\* with current_char() not None: [pos, toks] = the read position after the
\* iteration and the tokens it appended
LexIteration(s, p) ==
    LET c == current_char(s, p)
        two_char == <<c>> \o (IF peek_char(s, p) = NONE THEN <<>> ELSE <<peek_char(s, p)>>)
    IN  IF c \in WhitespaceChars THEN [pos |-> skip_whitespace(s, p), toks |-> <<>>]
        ELSE IF c = "\n" THEN [pos |-> advance(s, p), toks |-> <<Token("NEWLINE", <<"\n">>)>>]
        ELSE IF c = "/" /\ peek_char(s, p) \in {"/", "*"}
             THEN [pos |-> skip_comment(s, p), toks |-> <<>>]
        ELSE IF c \in {"\"", "'"}
             THEN LET r == read_string_literal(s, p)
                  IN  [pos |-> r.pos,
                       toks |-> <<Token(IF r.value[1] = "\"" THEN "STRING_LITERAL"
                                                             ELSE "CHAR_LITERAL", r.value)>>]
        ELSE IF isdigit(c)
             THEN LET r == read_number(s, p)
                  IN  [pos |-> r.pos, toks |-> <<Token(r.type, r.value)>>]
        ELSE IF isalpha(c) \/ c = "_" THEN LexIdentifier(s, p)
        ELSE IF two_char \in DOMAIN TwoCharTokens
             THEN [pos |-> advance(s, advance(s, p)),
                   toks |-> <<Token(TwoCharTokens[two_char], two_char)>>]
        ELSE IF c \in DOMAIN SingleCharTokens
             THEN [pos |-> advance(s, p), toks |-> <<Token(SingleCharTokens[c], <<c>>)>>]
        ELSE [pos |-> advance(s, p), toks |-> <<Token("UNKNOWN", <<c>>)>>]

\* The characters the bounded sources are built from: one or two of every
\* class the main loop distinguishes
LexAlphabet == {" ", "\n", "/", "*", "\"", "'", "\\", "1", ".", "a", "_", "<", "=", ":", "@"}


\* Longer sources for the std:: rule, comments and literals
FixedSources ==
    { <<"s","t","d",":",":","c","o","u","t">>,
      <<"s","t","d",":",":","e","n","d","l">>,
      <<"s","t","d",":",":","s","t","r","i","n","g">>,
      <<"s","t","d",":",":","x">>,
      <<"s","t","d",":",":">>,
      <<"s","t","d",":",":","1">>,
      <<"s","t","d",":">>,
      <<"s","t","d"," ",":",":","c","o","u","t">>,
      <<"i","n","t"," ","m","a","i","n","(",")","{","r","e","t","u","r","n"," ","0",";","}">>,
      <<"c","o","u","t","<","<","\"","\\","n","\"",";">>,
      <<"/","*"," ","a"," ","*","/","x","+","+">>,
      <<"/","*","/","*","*","/","1">>,
      <<"\"","a","\\","\"","b","\"","\n">>,
      <<"\"","u","n","t","e","r","m","i","n","a","t","e","d","\\">>,
      <<"x","-",">","y","|","|","z","&","&","!","w","#","%","$">> }

LexSources == SeqsUpTo(LexAlphabet, MaxSrcLen) \cup FixedSources

\* No Parser has been constructed
ParserIdle ==
    /\ current = 0
    /\ declarations = <<>>
    /\ parsePc = "idle"
    /\ parseError = NONE
    /\ parseIters = 0

\* No SemanticAnalyzer has been constructed
AnalyzerIdle ==
    /\ ast = [node |-> "None"]
    /\ analyzer = [node |-> "None"]
    /\ semPc = "idle"
    /\ declIndex = 0
    /\ analyzeResult = FALSE

\* The value of `result` while compile_source_api has not returned
NoResult ==
    [returned |-> FALSE, success |-> FALSE, error |-> NONE, execution_output |-> <<>>]

\* The threads on which the server handles requests
Threads == {1, 2}

\* The stream that sys.stdout is when the server starts
Console == [owner |-> 0, name |-> "console"]

\* The StringIO that the call on thread t has constructed under this name
Buffer(t, name) == [owner |-> t, name |-> name]

Streams ==
    {Console} \cup {Buffer(t, name) : t \in Threads, name \in {"stdout_buffer", "execution_output"}}

NoRequest == [verbose |-> FALSE, outcome |-> "none", prints |-> 0]

\* A thread that has not been given a request
NoCall ==
    [pc |-> "idle", request |-> NoRequest, old_targets |-> <<>>, printed |-> 0,
     result |-> NoResult]

\* The server has started and no request has arrived
ServerIdle ==
    /\ sys_stdout = Console
    /\ streams = [s \in Streams |-> <<>>]
    /\ calls = [t \in Threads |-> NoCall]
    /\ previous = <<>>

\* No code has been generated or run, compile_source_api has not returned
BackendIdle ==
    /\ generated_code = <<>>
    /\ genPc = "idle"
    /\ run = [status |-> "idle"]
    /\ pending = <<>>
    /\ handler = <<>>
    /\ runPc = "idle"
    /\ result = NoResult

\* Lexer.__init__ on one of the given sources, tokenize about to start
LexerOn(sources) ==
    /\ source_code \in sources
    /\ position = 0
    /\ tokens = <<>>
    /\ lexPc = "scan"
    /\ lexIters = 0
    /\ ParserIdle
    /\ AnalyzerIdle
    /\ BackendIdle
    /\ ServerIdle

\* get_type_compatibility has not been called
NoTypeCall ==
    /\ first_type = <<>>
    /\ second_type = <<>>
    /\ compatible = <<>>

LexInitOn(sources) == LexerOn(sources) /\ NoTypeCall

LexInit == LexInitOn(LexSources)

\* One iteration of `while self.current_char():`
LexStep ==
    /\ lexPc = "scan"
    /\ current_char(source_code, position) # NONE
    /\ LET r == LexIteration(source_code, position)
       IN  /\ position' = r.pos
           /\ tokens' = tokens \o r.toks
    /\ lexIters' = lexIters + 1
    /\ UNCHANGED <<source_code, lexPc, parseVars, semVars, backVars, srvVars, previous, typeVars>>

\* The loop ends: `tokens.append(Token(TokenType.EOF, ...)); return tokens`
LexEof ==
    /\ lexPc = "scan"
    /\ current_char(source_code, position) = NONE
    /\ tokens' = Append(tokens, Token("EOF", <<>>))
    /\ lexPc' = "done"
    /\ UNCHANGED <<source_code, position, lexIters, parseVars, semVars, backVars, srvVars, previous, typeVars>>

LexNext == LexStep \/ LexEof

SpecLex == LexInit /\ [][LexNext]_vars

EofCount(toks) == Cardinality({i \in 1..Len(toks) : toks[i].type = "EOF"})

\* C6: tokenize terminates and its result ends in exactly one EOF.  Every
\* iteration of the main loop advances the read position by at least one
\* character (so the iterations taken never exceed the position, which never
\* exceeds the length of the source); no EOF token is appended inside the
\* loop, and the returned list holds exactly one EOF token, its last element.
C6_TokenizeTerminatesOneEof ==
    /\ lexIters <= position
    /\ position <= Len(source_code)
    /\ lexPc = "scan" => EofCount(tokens) = 0
    /\ lexPc = "done" => /\ current_char(source_code, position) = NONE
                         /\ Len(tokens) >= 1
                         /\ tokens[Len(tokens)].type = "EOF"
                         /\ EofCount(tokens) = 1

\* C6 witness: tokenize has returned on a source that opens a /* comment it
\* never closes, and on one that opens a string it never closes
C6_Witness ==
    /\ lexPc = "done"
    /\ Len(source_code) >= 3
    /\ \/ source_code[1] = "/" /\ source_code[2] = "*" /\ Len(tokens) = 1
       \/ source_code[1] = "\"" /\ source_code[Len(source_code)] = "\\"
          /\ Len(tokens) = 2 /\ tokens[1].type = "STRING_LITERAL"

\* ------------------------------------------------------------------------
\* Python str values are sequences of characters; the ones the code names
\* ------------------------------------------------------------------------
S_int == <<"i","n","t">>
S_float == <<"f","l","o","a","t">>
S_double == <<"d","o","u","b","l","e">>
S_char == <<"c","h","a","r">>
S_bool == <<"b","o","o","l">>
S_void == <<"v","o","i","d">>
S_string == <<"s","t","r","i","n","g">>
S_ostream == <<"o","s","t","r","e","a","m">>
S_unknown == <<"u","n","k","n","o","w","n">>
S_main == <<"m","a","i","n">>
S_cout == <<"c","o","u","t">>
S_endl == <<"e","n","d","l">>
S_std_cout == <<"s","t","d",":",":","c","o","u","t">>
S_std_endl == <<"s","t","d",":",":","e","n","d","l">>
S_std == <<"s","t","d">>
S_post == <<"_","p","o","s","t">>

\* ------------------------------------------------------------------------
\* Syntax tree  (parser.py, lines 10-211).  A node is a record whose field
\* `node` names its class; an absent optional child is NoneNode.
\* ------------------------------------------------------------------------
NoneNode == [node |-> "None"]
IsNone(n) == n.node = "None"

Type(name, is_pointer, is_reference, is_const) ==
    [node |-> "Type", name |-> name, is_pointer |-> is_pointer,
     is_reference |-> is_reference, is_const |-> is_const]

\* Literal.value is ival for int and bool literals (True = 1, False = 0) and
\* sval, the lexeme, for string, char and float literals
Literal(ival, sval, type_name) ==
    [node |-> "Literal", ival |-> ival, sval |-> sval, type_name |-> type_name]
Identifier(name) == [node |-> "Identifier", name |-> name]
BinaryOperation(left, operator, right) ==
    [node |-> "BinaryOperation", left |-> left, operator |-> operator, right |-> right]
UnaryOperation(operator, operand) ==
    [node |-> "UnaryOperation", operator |-> operator, operand |-> operand]
FunctionCall(name, arguments) ==
    [node |-> "FunctionCall", name |-> name, arguments |-> arguments]
Assignment(target, value) == [node |-> "Assignment", target |-> target, value |-> value]
ExpressionStatement(expression) == [node |-> "ExpressionStatement", expression |-> expression]
VariableDeclaration(var_type, name, initializer) ==
    [node |-> "VariableDeclaration", var_type |-> var_type, name |-> name,
     initializer |-> initializer]
Block(statements) == [node |-> "Block", statements |-> statements]
IfStatement(condition, then_stmt, else_stmt) ==
    [node |-> "IfStatement", condition |-> condition, then_stmt |-> then_stmt,
     else_stmt |-> else_stmt]
WhileStatement(condition, body) ==
    [node |-> "WhileStatement", condition |-> condition, body |-> body]
ForStatement(init, condition, update, body) ==
    [node |-> "ForStatement", init |-> init, condition |-> condition,
     update |-> update, body |-> body]
ReturnStatement(expression) == [node |-> "ReturnStatement", expression |-> expression]
FunctionDeclaration(return_type, name, parameters, body) ==
    [node |-> "FunctionDeclaration", return_type |-> return_type, name |-> name,
     parameters |-> parameters, body |-> body]
Program(decls) == [node |-> "Program", declarations |-> decls]
IncludeDirective(header) == [node |-> "IncludeDirective", header |-> header]
UsingNamespace(namespace) == [node |-> "UsingNamespace", namespace |-> namespace]
ClassDeclaration(name, members, is_struct) ==
    [node |-> "ClassDeclaration", name |-> name, members |-> members,
     is_struct |-> is_struct]

\* ------------------------------------------------------------------------
\* Parser  (parser.py, lines 214-705)
\* A parse function maps (tokens, Parser.current) to a result
\*   [err, pos, node]: err is NONE and node the returned value with
\*   Parser.current = pos, or err names the exception raised.
\* ------------------------------------------------------------------------
POk(pos, node) == [err |-> NONE, pos |-> pos, node |-> node]
PRaise(kind, pos) == [err |-> kind, pos |-> pos, node |-> NoneNode]

current_token(toks, cur) == IF cur >= Len(toks) THEN toks[Len(toks)] ELSE toks[cur + 1]
parser_advance(toks, cur) == IF cur < Len(toks) - 1 THEN cur + 1 ELSE cur
match(toks, cur, token_types) == current_token(toks, cur).type \in token_types

\* Parser.consume: the result's node is the consumed token
consume(toks, cur, token_type) ==
    IF current_token(toks, cur).type = token_type
    THEN POk(parser_advance(toks, cur), current_token(toks, cur))
    ELSE PRaise("SyntaxError", cur)

RECURSIVE skip_newlines(_, _)
skip_newlines(toks, cur) ==
    IF match(toks, cur, {"NEWLINE"})
    THEN skip_newlines(toks, parser_advance(toks, cur))
    ELSE cur

TypeTokens == {"INT", "FLOAT", "DOUBLE", "CHAR", "BOOL", "VOID"}
LocalTypeTokens == {"INT", "FLOAT", "DOUBLE", "CHAR", "BOOL"}

\* Parser.parse_type
parse_type(toks, cur) ==
    LET is_const == match(toks, cur, {"CONST"})
        c1 == IF is_const THEN parser_advance(toks, cur) ELSE cur
    IN  IF match(toks, c1, TypeTokens)
        THEN LET base == current_token(toks, c1).value
                 c2 == parser_advance(toks, c1)
                 is_pointer == match(toks, c2, {"MULTIPLY"})
                 c3 == IF is_pointer THEN parser_advance(toks, c2) ELSE c2
                 is_reference == match(toks, c3, {"AMPERSAND"})
                 c4 == IF is_reference THEN parser_advance(toks, c3) ELSE c3
             IN  POk(c4, Type(base, is_pointer, is_reference, is_const))
        ELSE PRaise("SyntaxError", c1)

\* Python int() of a lexeme of decimal digits
DigitValue(c) ==
    CASE c = "0" -> 0 [] c = "1" -> 1 [] c = "2" -> 2 [] c = "3" -> 3 [] c = "4" -> 4
      [] c = "5" -> 5 [] c = "6" -> 6 [] c = "7" -> 7 [] c = "8" -> 8 [] c = "9" -> 9

RECURSIVE int(_)
int(value) ==
    IF value = <<>> THEN 0
    ELSE 10 * int(SubSeq(value, 1, Len(value) - 1)) + DigitValue(value[Len(value)])

\* Python float() accepts a lexeme of digits and dots only with a single dot
FloatParses(value) == Cardinality({i \in 1..Len(value) : value[i] = "."}) = 1

\* The binary levels of the precedence cascade, lowest first: parse_logical_or,
\* parse_logical_and, parse_equality, parse_comparison, parse_addition,
\* parse_shift, parse_multiplication; each level parses its operands at the
\* next level, the last one with parse_unary
LevelOperators ==
    <<{"LOGICAL_OR"}, {"LOGICAL_AND"}, {"EQUALS", "NOT_EQUALS"},
      {"LESS_THAN", "GREATER_THAN", "LESS_EQUAL", "GREATER_EQUAL"},
      {"PLUS", "MINUS"}, {"LEFT_SHIFT"}, {"MULTIPLY", "DIVIDE", "MODULO"}>>

\* Sequencing of parsing steps: a step that raised ends the whole parse with
\* its error (the exception propagates), otherwise the next step K runs on
\* the result of the step
Bind(r, K(_)) == IF r.err # NONE THEN r ELSE K(r)

RECURSIVE parse_expression(_, _)
RECURSIVE ParseLevel(_, _, _)
RECURSIVE LevelsUp(_, _, _, _)
RECURSIVE LevelLoop(_, _, _)
RECURSIVE parse_unary(_, _)
RECURSIVE parse_postfix(_, _)
RECURSIVE PostfixLoop(_, _)
RECURSIVE ParseArguments(_, _, _)
RECURSIVE parse_primary(_, _)

\* Parser.parse_expression
parse_expression(toks, cur) ==
    Bind(ParseLevel(1, toks, cur), LAMBDA expr :
        IF match(toks, expr.pos, {"ASSIGN"})
        THEN Bind(parse_expression(toks, parser_advance(toks, expr.pos)), LAMBDA value :
                 IF expr.node.node = "Identifier"
                 THEN POk(value.pos, Assignment(expr.node, value.node))
                 ELSE PRaise("SyntaxError", value.pos))
        ELSE expr)

\* The `while self.match(...)` loop of a binary level, entered with the left
\* operand r already parsed
LevelLoop(level, toks, r) ==
    IF match(toks, r.pos, LevelOperators[level])
    THEN Bind(ParseLevel(level + 1, toks, parser_advance(toks, r.pos)), LAMBDA right :
             LevelLoop(level, toks,
                       POk(right.pos, BinaryOperation(r.node, current_token(toks, r.pos).value,
                                                      right.node))))
    ELSE r

\* The loops of the binary levels from l up to level, run as the calls
\* return: r is what the level below l has returned
LevelsUp(level, l, toks, r) ==
    IF r.err # NONE \/ l < level THEN r
    ELSE LevelsUp(level, l - 1, toks, LevelLoop(l, toks, r))

\* The method of a binary level (1 is parse_logical_or, the last one is
\* parse_multiplicative): each level calls the next one first, down to
\* parse_unary, and loops on its own operators when that call has returned
ParseLevel(level, toks, cur) ==
    LevelsUp(level, Len(LevelOperators), toks, parse_unary(toks, cur))

parse_logical_or(toks, cur) == ParseLevel(1, toks, cur)
parse_shift(toks, cur) == ParseLevel(6, toks, cur)

\* Parser.parse_unary
parse_unary(toks, cur) ==
    IF match(toks, cur, {"LOGICAL_NOT", "MINUS", "PLUS"})
    THEN Bind(parse_unary(toks, parser_advance(toks, cur)), LAMBDA expr :
             POk(expr.pos, UnaryOperation(current_token(toks, cur).value, expr.node)))
    ELSE parse_postfix(toks, cur)

\* The argument list of a call, after the first argument: [err, pos, node]
\* with node the list of arguments
ParseArguments(toks, cur, arguments) ==
    IF match(toks, cur, {"COMMA"})
    THEN Bind(parse_expression(toks, parser_advance(toks, cur)), LAMBDA arg :
             ParseArguments(toks, arg.pos, Append(arguments, arg.node)))
    ELSE POk(cur, arguments)

\* The arguments of a call, the current token being the one after `(`
ParseCallArguments(toks, cur) ==
    IF match(toks, cur, {"RIGHT_PAREN"}) THEN POk(cur, <<>>)
    ELSE Bind(parse_expression(toks, cur), LAMBDA first :
             ParseArguments(toks, first.pos, <<first.node>>))

\* The `while True` loop of Parser.parse_postfix
PostfixLoop(toks, r) ==
    IF match(toks, r.pos, {"LEFT_PAREN"})
    THEN Bind(ParseCallArguments(toks, parser_advance(toks, r.pos)), LAMBDA args :
         Bind(consume(toks, args.pos, "RIGHT_PAREN"), LAMBDA close :
             IF r.node.node = "Identifier"
             THEN PostfixLoop(toks, POk(close.pos, FunctionCall(r.node.name, args.node)))
             ELSE PRaise("SyntaxError", close.pos)))
    ELSE IF match(toks, r.pos, {"INCREMENT", "DECREMENT"})
         THEN PostfixLoop(toks, POk(parser_advance(toks, r.pos),
                                    UnaryOperation(current_token(toks, r.pos).value \o S_post,
                                                   r.node)))
         ELSE r

\* Parser.parse_postfix
parse_postfix(toks, cur) ==
    Bind(parse_primary(toks, cur), LAMBDA expr : PostfixLoop(toks, expr))

\* The token t, the current one, as a primary expression that is a literal
\* or a name
PrimaryOfToken(t, next) ==
    CASE t.type = "INTEGER_LITERAL" -> POk(next, Literal(int(t.value), <<>>, S_int))
      [] t.type = "FLOAT_LITERAL" ->
            IF FloatParses(t.value) THEN POk(next, Literal(0, t.value, S_float))
            ELSE PRaise("ValueError", next)
      [] t.type = "STRING_LITERAL" -> POk(next, Literal(0, t.value, S_string))
      [] t.type = "CHAR_LITERAL" -> POk(next, Literal(0, t.value, S_char))
      [] t.type = "TRUE" -> POk(next, Literal(1, <<>>, S_bool))
      [] t.type = "FALSE" -> POk(next, Literal(0, <<>>, S_bool))
      [] t.type \in {"IDENTIFIER", "STD_COUT", "STD_ENDL", "STD_STRING"} ->
            POk(next, Identifier(t.value))

\* Parser.parse_primary
parse_primary(toks, cur) ==
    IF match(toks, cur, {"INTEGER_LITERAL", "FLOAT_LITERAL", "STRING_LITERAL", "CHAR_LITERAL",
                         "TRUE", "FALSE", "IDENTIFIER", "STD_COUT", "STD_ENDL", "STD_STRING"})
    THEN PrimaryOfToken(current_token(toks, cur), parser_advance(toks, cur))
    ELSE IF match(toks, cur, {"LEFT_PAREN"})
         THEN Bind(parse_expression(toks, parser_advance(toks, cur)), LAMBDA expr :
              Bind(consume(toks, expr.pos, "RIGHT_PAREN"), LAMBDA close :
                  POk(close.pos, expr.node)))
         ELSE PRaise("SyntaxError", cur)

RECURSIVE parse_statement(_, _)
RECURSIVE parse_block(_, _)
RECURSIVE BlockLoop(_, _, _)
RECURSIVE parse_if_statement(_, _)
RECURSIVE parse_while_statement(_, _)
RECURSIVE parse_for_statement(_, _)

\* An optional expression: none if the current token is one of `stop`
ParseOptional(toks, cur, stop) ==
    IF match(toks, cur, stop) THEN POk(cur, NoneNode) ELSE parse_expression(toks, cur)

\* `= initializer`, if the current token is `=`
ParseInitializer(toks, cur) ==
    IF match(toks, cur, {"ASSIGN"}) THEN parse_expression(toks, parser_advance(toks, cur))
    ELSE POk(cur, NoneNode)

\* Parser.parse_variable_declaration, after the type and the name
parse_variable_declaration(toks, cur, var_type, name) ==
    Bind(ParseInitializer(toks, cur), LAMBDA initializer :
    Bind(consume(toks, initializer.pos, "SEMICOLON"), LAMBDA semi :
        POk(semi.pos, VariableDeclaration(var_type, name, initializer.node))))

\* Parser.parse_return_statement
parse_return_statement(toks, cur) ==
    Bind(consume(toks, cur, "RETURN"), LAMBDA kw :
    Bind(ParseOptional(toks, kw.pos, {"SEMICOLON"}), LAMBDA expression :
    Bind(consume(toks, expression.pos, "SEMICOLON"), LAMBDA semi :
        POk(semi.pos, ReturnStatement(expression.node)))))

\* `consume(kw); consume(LEFT_PAREN); parse_expression(); consume(RIGHT_PAREN)`:
\* the head shared by parse_if_statement and parse_while_statement
ParseCondition(toks, cur, keyword) ==
    Bind(consume(toks, cur, keyword), LAMBDA kw :
    Bind(consume(toks, kw.pos, "LEFT_PAREN"), LAMBDA open :
    Bind(parse_expression(toks, open.pos), LAMBDA condition :
    Bind(consume(toks, condition.pos, "RIGHT_PAREN"), LAMBDA close :
        POk(close.pos, condition.node)))))

\* The optional `else` part of an if statement
ParseElse(toks, cur) ==
    IF match(toks, cur, {"ELSE"}) THEN parse_statement(toks, parser_advance(toks, cur))
    ELSE POk(cur, NoneNode)

\* Parser.parse_if_statement
parse_if_statement(toks, cur) ==
    Bind(ParseCondition(toks, cur, "IF"), LAMBDA condition :
    Bind(parse_statement(toks, condition.pos), LAMBDA then_stmt :
    Bind(ParseElse(toks, then_stmt.pos), LAMBDA else_stmt :
        POk(else_stmt.pos, IfStatement(condition.node, then_stmt.node, else_stmt.node)))))

\* Parser.parse_while_statement
parse_while_statement(toks, cur) ==
    Bind(ParseCondition(toks, cur, "WHILE"), LAMBDA condition :
    Bind(parse_statement(toks, condition.pos), LAMBDA body :
        POk(body.pos, WhileStatement(condition.node, body.node))))

\* The init clause of Parser.parse_for_statement (lines 495-506)
ParseForInit(toks, cur) ==
    IF match(toks, cur, {"SEMICOLON"}) THEN POk(cur, NoneNode)
    ELSE IF match(toks, cur, LocalTypeTokens)
         THEN Bind(parse_type(toks, cur), LAMBDA var_type :
              Bind(consume(toks, var_type.pos, "IDENTIFIER"), LAMBDA name :
              Bind(ParseInitializer(toks, name.pos), LAMBDA initializer :
                  POk(initializer.pos,
                      VariableDeclaration(var_type.node, name.node.value, initializer.node)))))
         ELSE Bind(parse_expression(toks, cur), LAMBDA expr :
                  POk(expr.pos, ExpressionStatement(expr.node)))

\* Parser.parse_for_statement up to the `)`: the three clauses
ParseForClauses(toks, cur) ==
    Bind(consume(toks, cur, "FOR"), LAMBDA kw :
    Bind(consume(toks, kw.pos, "LEFT_PAREN"), LAMBDA open :
    Bind(ParseForInit(toks, open.pos), LAMBDA init :
    Bind(consume(toks, init.pos, "SEMICOLON"), LAMBDA semi1 :
    Bind(ParseOptional(toks, semi1.pos, {"SEMICOLON"}), LAMBDA condition :
    Bind(consume(toks, condition.pos, "SEMICOLON"), LAMBDA semi2 :
    Bind(ParseOptional(toks, semi2.pos, {"RIGHT_PAREN"}), LAMBDA update :
    Bind(consume(toks, update.pos, "RIGHT_PAREN"), LAMBDA close :
        POk(close.pos, [init |-> init.node, condition |-> condition.node,
                        update |-> update.node])))))))))

\* Parser.parse_for_statement
parse_for_statement(toks, cur) ==
    Bind(ParseForClauses(toks, cur), LAMBDA clauses :
    Bind(parse_statement(toks, clauses.pos), LAMBDA body :
        POk(body.pos, ForStatement(clauses.node.init, clauses.node.condition,
                                   clauses.node.update, body.node))))

\* The `while not RIGHT_BRACE and not EOF` loop of Parser.parse_block: in a
\* pass, newlines are skipped, `}` breaks the loop, a statement is appended
BlockLoop(toks, cur, statements) ==
    CASE match(toks, cur, {"RIGHT_BRACE", "EOF"}) -> POk(cur, statements)
      [] ~match(toks, cur, {"RIGHT_BRACE", "EOF"})
            /\ match(toks, skip_newlines(toks, cur), {"RIGHT_BRACE"}) ->
            POk(skip_newlines(toks, cur), statements)
      [] OTHER ->
            Bind(parse_statement(toks, skip_newlines(toks, cur)), LAMBDA stmt :
                BlockLoop(toks, stmt.pos, Append(statements, stmt.node)))

\* Parser.parse_block
parse_block(toks, cur) ==
    Bind(consume(toks, cur, "LEFT_BRACE"), LAMBDA open :
    Bind(BlockLoop(toks, open.pos, <<>>), LAMBDA statements :
    Bind(consume(toks, statements.pos, "RIGHT_BRACE"), LAMBDA close :
        POk(close.pos, Block(statements.node)))))

\* The statement that starts at the current token, newlines skipped
StatementAt(toks, cur) ==
    CASE match(toks, cur, LocalTypeTokens) ->
            Bind(parse_type(toks, cur), LAMBDA var_type :
            Bind(consume(toks, var_type.pos, "IDENTIFIER"), LAMBDA name :
                parse_variable_declaration(toks, name.pos, var_type.node, name.node.value)))
      [] match(toks, cur, {"IF"}) -> parse_if_statement(toks, cur)
      [] match(toks, cur, {"WHILE"}) -> parse_while_statement(toks, cur)
      [] match(toks, cur, {"FOR"}) -> parse_for_statement(toks, cur)
      [] match(toks, cur, {"RETURN"}) -> parse_return_statement(toks, cur)
      [] match(toks, cur, {"LEFT_BRACE"}) -> parse_block(toks, cur)
      [] OTHER ->
            Bind(parse_expression(toks, cur), LAMBDA expr :
            Bind(consume(toks, expr.pos, "SEMICOLON"), LAMBDA semi :
                POk(semi.pos, ExpressionStatement(expr.node))))

\* Parser.parse_statement
parse_statement(toks, cur) == StatementAt(toks, skip_newlines(toks, cur))

RECURSIVE SkipUntil(_, _, _)
\* `while not self.match(*stop): self.advance()`
SkipUntil(toks, cur, stop) ==
    IF ~match(toks, cur, stop) THEN SkipUntil(toks, parser_advance(toks, cur), stop) ELSE cur

RECURSIVE ClassMemberLoop(_, _, _)
\* A data member `type name;` of a class, then the rest of the member loop
ClassMember(toks, cur, members) ==
    Bind(parse_type(toks, cur), LAMBDA mtype :
    Bind(consume(toks, mtype.pos, "IDENTIFIER"), LAMBDA mname :
    Bind(consume(toks, mname.pos, "SEMICOLON"), LAMBDA semi :
        ClassMemberLoop(toks, semi.pos,
                        Append(members,
                               VariableDeclaration(mtype.node, mname.node.value, NoneNode))))))

\* One pass of the member loop, newlines skipped: a member, or one token of
\* unsupported member syntax skipped
ClassMemberAt(toks, cur, members) ==
    IF match(toks, cur, {"RIGHT_BRACE"}) THEN POk(cur, members)
    ELSE IF match(toks, cur, {"INT", "FLOAT", "DOUBLE", "CHAR", "BOOL"})
         THEN ClassMember(toks, cur, members)
         ELSE ClassMemberLoop(toks, parser_advance(toks, cur), members)

\* The member loop of Parser.parse_class_declaration (lines 301-312)
ClassMemberLoop(toks, cur, members) ==
    IF ~match(toks, cur, {"RIGHT_BRACE", "EOF"})
    THEN ClassMemberAt(toks, skip_newlines(toks, cur), members)
    ELSE POk(cur, members)

\* Parser.parse_class_declaration; the inheritance list is skipped
parse_class_declaration(toks, cur) ==
    Bind(consume(toks, parser_advance(toks, cur), "IDENTIFIER"), LAMBDA name :
    Bind(consume(toks, IF match(toks, name.pos, {"COLON"})
                       THEN SkipUntil(toks, name.pos, {"LEFT_BRACE", "EOF"})
                       ELSE name.pos, "LEFT_BRACE"), LAMBDA open :
    Bind(ClassMemberLoop(toks, open.pos, <<>>), LAMBDA members :
    Bind(consume(toks, members.pos, "RIGHT_BRACE"), LAMBDA close :
        POk(IF match(toks, close.pos, {"SEMICOLON"}) THEN parser_advance(toks, close.pos)
                                                     ELSE close.pos,
            ClassDeclaration(name.node.value, members.node, match(toks, cur, {"STRUCT"})))))))

RECURSIVE ReadHeader(_, _, _)
\* `while not GREATER_THAN and not (EOF, NEWLINE): header += self.advance().value`
\* and the closing `>` if there is one
ReadHeader(toks, cur, header) ==
    IF ~match(toks, cur, {"GREATER_THAN"}) /\ ~match(toks, cur, {"EOF", "NEWLINE"})
    THEN ReadHeader(toks, parser_advance(toks, cur), header \o current_token(toks, cur).value)
    ELSE IF match(toks, cur, {"GREATER_THAN"})
         THEN POk(parser_advance(toks, cur), IncludeDirective(header \o <<">">>))
         ELSE POk(cur, IncludeDirective(header))

\* The header of an include directive, the current token being the one
\* after `include`
ParseInclude(toks, cur) ==
    IF match(toks, cur, {"LESS_THAN"}) THEN ReadHeader(toks, parser_advance(toks, cur), <<"<">>)
    ELSE IF match(toks, cur, {"STRING_LITERAL"})
         THEN POk(parser_advance(toks, cur), IncludeDirective(current_token(toks, cur).value))
         ELSE POk(cur, IncludeDirective(<<>>))

\* Parser.parse_preprocessor; an unknown directive is skipped and yields None
parse_preprocessor(toks, cur) ==
    Bind(consume(toks, cur, "HASH"), LAMBDA hash :
        IF match(toks, hash.pos, {"INCLUDE"})
        THEN ParseInclude(toks, parser_advance(toks, hash.pos))
        ELSE POk(SkipUntil(toks, hash.pos, {"NEWLINE", "EOF"}), NoneNode))

\* Parser.parse_using_namespace
parse_using_namespace(toks, cur) ==
    Bind(consume(toks, cur, "USING"), LAMBDA using :
    Bind(consume(toks, using.pos, "NAMESPACE"), LAMBDA ns :
    Bind(consume(toks, ns.pos, "STD"), LAMBDA namespace :
    Bind(consume(toks, namespace.pos, "SEMICOLON"), LAMBDA semi :
        POk(semi.pos, UsingNamespace(namespace.node.value))))))

\* One `(param_type, param_name)` pair of a parameter list
ParseParameter(toks, cur) ==
    Bind(parse_type(toks, cur), LAMBDA param_type :
    Bind(consume(toks, param_type.pos, "IDENTIFIER"), LAMBDA param_name :
        POk(param_name.pos, [type |-> param_type.node, name |-> param_name.node.value])))

RECURSIVE ParameterLoop(_, _, _)
\* `while self.match(TokenType.COMMA)` of Parser.parse_function_declaration
ParameterLoop(toks, cur, parameters) ==
    IF match(toks, cur, {"COMMA"})
    THEN Bind(ParseParameter(toks, parser_advance(toks, cur)), LAMBDA param :
             ParameterLoop(toks, param.pos, Append(parameters, param.node)))
    ELSE POk(cur, parameters)

\* The parameter list, the current token being the one after `(`
ParseParameters(toks, cur) ==
    IF ~match(toks, cur, {"RIGHT_PAREN"})
    THEN Bind(ParseParameter(toks, cur), LAMBDA first :
             ParameterLoop(toks, first.pos, <<first.node>>))
    ELSE POk(cur, <<>>)

\* `( parameters )` of Parser.parse_function_declaration
ParseParameterList(toks, cur) ==
    Bind(consume(toks, cur, "LEFT_PAREN"), LAMBDA open :
    Bind(ParseParameters(toks, open.pos), LAMBDA parameters :
    Bind(consume(toks, parameters.pos, "RIGHT_PAREN"), LAMBDA close :
        POk(close.pos, parameters.node))))

\* Parser.parse_function_declaration
parse_function_declaration(toks, cur, return_type, name) ==
    Bind(ParseParameterList(toks, cur), LAMBDA parameters :
    Bind(parse_block(toks, parameters.pos), LAMBDA body :
        POk(body.pos, FunctionDeclaration(return_type, name, parameters.node, body.node))))

\* `type = self.parse_type(); name = self.consume(IDENTIFIER).value`
ParseTypeAndName(toks, cur) ==
    Bind(parse_type(toks, cur), LAMBDA var_type :
    Bind(consume(toks, var_type.pos, "IDENTIFIER"), LAMBDA name :
        POk(name.pos, [type |-> var_type.node, name |-> name.node.value])))

\* Parser.parse_function_or_variable
parse_function_or_variable(toks, cur) ==
    Bind(ParseTypeAndName(toks, cur), LAMBDA head :
        IF match(toks, head.pos, {"LEFT_PAREN"})
        THEN parse_function_declaration(toks, head.pos, head.node.type, head.node.name)
        ELSE parse_variable_declaration(toks, head.pos, head.node.type, head.node.name))

\* The declaration that starts at the current token, newlines skipped; a
\* token that starts no declaration yields None and is not consumed
DeclarationAt(toks, cur) ==
    CASE match(toks, cur, {"HASH"}) -> parse_preprocessor(toks, cur)
      [] match(toks, cur, {"USING"}) -> parse_using_namespace(toks, cur)
      [] match(toks, cur, {"CLASS", "STRUCT"}) -> parse_class_declaration(toks, cur)
      [] match(toks, cur, TypeTokens) -> parse_function_or_variable(toks, cur)
      [] OTHER -> POk(cur, NoneNode)

\* Parser.parse_declaration
parse_declaration(toks, cur) == DeclarationAt(toks, skip_newlines(toks, cur))

\* ------------------------------------------------------------------------
\* Parser.parse: the top-level loop  (parser.py 261-274)
\* ------------------------------------------------------------------------
\* The lexer [pos, toks] after an iteration that returned the [pos, toks] it
AfterLexIteration(lexer, it) == [pos |-> it.pos, toks |-> lexer.toks \o it.toks]

\* The `while self.current_char is not None` loop of Lexer.tokenize
RECURSIVE TokenizeFrom(_, _)
TokenizeFrom(s, lexer) ==
    IF current_char(s, lexer.pos) # NONE
    THEN TokenizeFrom(s, AfterLexIteration(lexer, LexIteration(s, lexer.pos)))
    ELSE Append(lexer.toks, Token("EOF", <<>>))

\* Lexer(source).tokenize()
tokenize(s) == TokenizeFrom(s, [pos |-> 0, toks |-> <<>>])

\* The end of one iteration of the loop of Parser.parse, decl being what
\* parse_declaration returned or raised:
\*   exit = "raise" | "next", and the new current / declarations
AfterDeclaration(decl, decls) ==
    IF decl.err # NONE
    THEN [exit |-> "raise", pos |-> decl.pos, decls |-> decls, err |-> decl.err]
    ELSE [exit |-> "next", pos |-> decl.pos,
          decls |-> IF IsNone(decl.node) THEN decls ELSE Append(decls, decl.node),
          err |-> NONE]

\* One iteration of `while not self.match(TokenType.EOF)` in Parser.parse,
\* entered with the current token not EOF
ParseIteration(toks, cur, decls) ==
    IF match(toks, skip_newlines(toks, cur), {"EOF"})
    THEN [exit |-> "break", pos |-> skip_newlines(toks, cur), decls |-> decls, err |-> NONE]
    ELSE AfterDeclaration(parse_declaration(toks, skip_newlines(toks, cur)), decls)

RECURSIVE ParseLoop(_, _, _)
\* What follows an iteration r of the loop that was entered in the state
\* (cur, decls).  An iteration that ends in the state it started in repeats
\* forever: status "hang" stands for the call that never returns.
AfterIteration(toks, cur, decls, r) ==
    CASE r.exit = "break" -> [status |-> "ok", node |-> Program(r.decls)]
      [] r.exit = "raise" -> [status |-> r.err, node |-> NoneNode]
      [] r.exit = "next" /\ r.pos = cur /\ r.decls = decls ->
            [status |-> "hang", node |-> NoneNode]
      [] OTHER -> ParseLoop(toks, r.pos, r.decls)

\* Parser.parse as a whole
ParseLoop(toks, cur, decls) ==
    IF match(toks, cur, {"EOF"}) THEN [status |-> "ok", node |-> Program(decls)]
    ELSE AfterIteration(toks, cur, decls, ParseIteration(toks, cur, decls))

\* Parser(tokens).parse()
parse(toks) == ParseLoop(toks, 0, <<>>)

\* int main(){return 0;}
Src_ReturnZero ==
    <<"i","n","t"," ","m","a","i","n","(",")","{","r","e","t","u","r","n"," ","0",";","}">>

\* #include <iostream>\nusing namespace std;\nint main(){cout<<"hi"<<endl;return 0;}
Src_Hello ==
    <<"#","i","n","c","l","u","d","e"," ","<","i","o","s","t","r","e","a","m",">","\n","u",
      "s","i","n","g"," ","n","a","m","e","s","p","a","c","e"," ","s","t","d",";","\n","i",
      "n","t"," ","m","a","i","n","(",")","{","c","o","u","t","<","<","\"","h","i","\"","<",
      "<","e","n","d","l",";","r","e","t","u","r","n"," ","0",";","}">>

\* class A{int a;};\nint main(){return 2;}
Src_Class ==
    <<"c","l","a","s","s"," ","A","{","i","n","t"," ","a",";","}",";","\n","i","n","t"," ",
      "m","a","i","n","(",")","{","r","e","t","u","r","n"," ","2",";","}">>

\* #define X 1\nint x=1;
Src_Define ==
    <<"#","d","e","f","i","n","e"," ","X"," ","1","\n","i","n","t"," ","x","=","1",";">>

\* void f(int a,float b){if(a<1){a=2;}else a=3;while(a)a--;for(int i=0;i<3;i++){}}
Src_Control ==
    <<"v","o","i","d"," ","f","(","i","n","t"," ","a",",","f","l","o","a","t"," ","b",")",
      "{","i","f","(","a","<","1",")","{","a","=","2",";","}","e","l","s","e"," ","a","=",
      "3",";","w","h","i","l","e","(","a",")","a","-","-",";","f","o","r","(","i","n","t",
      " ","i","=","0",";","i","<","3",";","i","+","+",")","{","}","}">>

\* int g(){for(;;)return f(1,x)+-2*3.5;}
Src_Expr ==
    <<"i","n","t"," ","g","(",")","{","f","o","r","(",";",";",")","r","e","t","u","r","n",
      " ","f","(","1",",","x",")","+","-","2","*","3",".","5",";","}">>


InsertAt(s, i, c) == SubSeq(s, 1, i) \o <<c>> \o SubSeq(s, i + 1, Len(s))

\* void f(){cout<<
Head_Shift ==
    <<"v","o","i","d"," ","f","(",")","{","c","o","u","t","<","<">>

\* The operands and the operators that follow `cout <<` in the sources
\* void f(){cout<< a op b ;}
ShiftOperands == {<<"a">>, <<"b">>, <<"1">>}
AdditiveOperators == {<<"+">>, <<"-">>}
RelationalOperators == {<<"<">>, <<">">>, <<"<", "=">>, <<"=", "=">>, <<"!", "=">>}

ShiftSource(a, op, b) == Head_Shift \o a \o op \o b \o <<";", "}">>

ShiftSources ==
    {ShiftSource(a, op, b) :
        a \in ShiftOperands, op \in AdditiveOperators \cup RelationalOperators,
        b \in ShiftOperands}

\* int f(int a){if(a<1)a=2;else a=3;return a+1;}
Src_Branches ==
    <<"i","n","t"," ","f","(","i","n","t"," ","a",")","{","i","f","(","a","<","1",")",
      "a","=","2",";","e","l","s","e"," ","a","=","3",";","r","e","t","u","r","n"," ",
      "a","+","1",";","}">>

\* Src_Branches with one newline character inserted anywhere
NewlineSources == {InsertAt(Src_Branches, i, "\n") : i \in 0..Len(Src_Branches)}

\* Sources whose first token cannot start a declaration
StraySources == {<<";">>, <<"x">>, <<"}">>, <<"1">>}

BaseSources == {Src_ReturnZero, Src_Hello, Src_Class, Src_Define, Src_Control, Src_Expr}

\* The base sources, and each of them with one stray character that the
\* lexer has no rule for inserted anywhere
ParseSources ==
    BaseSources \cup UNION {{InsertAt(s, i, "@") : i \in 0..Len(s)} : s \in BaseSources}
        \cup StraySources \cup ShiftSources \cup NewlineSources

ParseInit == LexInitOn(ParseSources)

\* Parser.__init__ on the tokens that tokenize has returned
ParserInit ==
    /\ lexPc = "done"
    /\ parsePc = "idle"
    /\ current' = 0
    /\ parsePc' = "loop"
    /\ UNCHANGED <<lexVars, declarations, parseError, parseIters, semVars, backVars, srvVars, previous, typeVars>>

\* One iteration of the loop of Parser.parse
ParseStep ==
    /\ parsePc = "loop"
    /\ ~match(tokens, current, {"EOF"})
    /\ parseIters < MaxParseIters
    /\ \E r \in {ParseIteration(tokens, current, declarations)} :
           /\ current' = r.pos
           /\ declarations' = r.decls
           /\ parsePc' = CASE r.exit = "break" -> "returned"
                           [] r.exit = "raise" -> "raised"
                           [] OTHER -> "loop"
           /\ parseError' = r.err
    /\ parseIters' = parseIters + 1
    /\ UNCHANGED <<lexVars, semVars, backVars, srvVars, previous, typeVars>>

\* The loop condition fails: `return Program(declarations)`
ParseReturn ==
    /\ parsePc = "loop"
    /\ match(tokens, current, {"EOF"})
    /\ parsePc' = "returned"
    /\ UNCHANGED <<lexVars, current, declarations, parseError, parseIters, semVars, backVars, srvVars, previous, typeVars>>

ParseNext == ParserInit \/ ParseStep \/ ParseReturn

SpecParse == ParseInit /\ [][LexNext \/ ParseNext]_vars

HasUnknown(toks) == \E i \in 1..Len(toks) : toks[i].type = "UNKNOWN"

\* C5: whenever the token sequence of a source contains an UNKNOWN token,
\* Parser.parse does not return a Program (it raises instead), wherever the
\* token stands: at top level, in a function body, in a class body or on a
\* preprocessor line.
C5_UnknownTokenNeverAccepted == parsePc = "returned" => ~HasUnknown(tokens)

\* ------------------------------------------------------------------------
\* SemanticAnalyzer  (semantic_analyzer.py)
\*
\* The analyzer's state is a record A:
\*   scope_stack      : the scopes from the global one to current_scope; a
\*                      scope's parent is the scope below it
\*   errors           : SemanticAnalyzer.errors
\*   current_function : the FunctionDeclaration being visited, or NoneNode
\*   user_types       : SemanticAnalyzer.user_types
\*   type             : the type returned by the last visit_expression
\*   raised           : a SemanticError is propagating
\* Types and names are sequences of characters; "no type" (None) is <<>>.
\* ------------------------------------------------------------------------
NoType == <<>>
S_function_ == <<"f","u","n","c","t","i","o","n","_">>
S_class_ == <<"c","l","a","s","s","_">>
S_global == <<"g","l","o","b","a","l">>
S_block == <<"b","l","o","c","k">>
S_for_loop == <<"f","o","r","_","l","o","o","p">>

\* What follows a call in a method: K runs in the state A the call has
\* left, unless a SemanticError has left the call, which then leaves the
\* method too
Then(A, K(_)) == IF A.raised THEN A ELSE K(A)

\* Symbol.__init__; is_initialized is `value is not None`
Symbol(name, symbol_type, data_type, is_initialized, parameters) ==
    [name |-> name, symbol_type |-> symbol_type, data_type |-> data_type,
     is_initialized |-> is_initialized, parameters |-> parameters]

\* Scope.__init__: no symbols
Scope(name) == [name |-> name, symbols |-> <<>>]

\* An entry of SemanticAnalyzer.errors: the message's kind and the names or
\* types the message is formatted with
Err(kind, s1, s2) == [kind |-> kind, s1 |-> s1, s2 |-> s2]

built_in_types == {S_int, S_float, S_double, S_char, S_bool, S_void, S_string}

\* SemanticAnalyzer.type_compatibility, as the set of its keys with their
\* values
type_compatibility ==
    {<<S_int, S_int, S_int>>, <<S_int, S_float, S_float>>, <<S_int, S_double, S_double>>,
     <<S_float, S_int, S_float>>, <<S_float, S_float, S_float>>,
     <<S_float, S_double, S_double>>, <<S_double, S_int, S_double>>,
     <<S_double, S_float, S_double>>, <<S_double, S_double, S_double>>,
     <<S_bool, S_bool, S_bool>>, <<S_char, S_char, S_char>>,
     <<S_string, S_string, S_string>>}

\* dict.get((type1, type2))
CompatibilityGet(type1, type2) ==
    IF \E e \in type_compatibility : e[1] = type1 /\ e[2] = type2
    THEN (CHOOSE e \in type_compatibility : e[1] = type1 /\ e[2] = type2)[3]
    ELSE NoType

\* A get_type_compatibility that takes every type as compatible with itself
get_type_compatibility_reflexive(type1, type2) ==
    IF type1 = type2 THEN type1
    ELSE IF CompatibilityGet(type1, type2) # NoType THEN CompatibilityGet(type1, type2)
    ELSE CompatibilityGet(type2, type1)

\* SemanticAnalyzer.get_type_compatibility
get_type_compatibility(type1, type2) ==
    IF CompatibilityGet(type1, type2) # NoType THEN CompatibilityGet(type1, type2)
    ELSE CompatibilityGet(type2, type1)

\* Scope.define_symbol, the name not yet in the scope
define_symbol(scope, symbol) ==
    [scope EXCEPT !.symbols = (symbol.name :> symbol) @@ @]

\* SemanticAnalyzer.init_built_ins
init_built_ins ==
    define_symbol(define_symbol(define_symbol(define_symbol(Scope(S_global),
        Symbol(S_cout, "variable", S_ostream, TRUE, <<>>)),
        Symbol(S_std_cout, "variable", S_ostream, TRUE, <<>>)),
        Symbol(S_endl, "variable", S_string, TRUE, <<>>)),
        Symbol(S_std_endl, "variable", S_string, TRUE, <<>>))

\* SemanticAnalyzer.__init__
NewAnalyzer ==
    [scope_stack |-> <<init_built_ins>>, errors |-> <<>>, current_function |-> NoneNode,
     user_types |-> {}, type |-> NoType, raised |-> FALSE]

current_scope(A) == A.scope_stack[Len(A.scope_stack)]

\* SemanticAnalyzer.error
error(A, e) == [A EXCEPT !.errors = Append(@, e)]

\* `return t` of a visit_* method of an expression
Returns(A, t) == [A EXCEPT !.type = t]

\* SemanticAnalyzer.enter_scope
enter_scope(A, name) == [A EXCEPT !.scope_stack = Append(@, Scope(name))]

\* An exit_scope that keeps the scope above the global one on the stack
exit_scope_above_function(A) ==
    IF Len(A.scope_stack) > 2
    THEN [A EXCEPT !.scope_stack = SubSeq(@, 1, Len(@) - 1)]
    ELSE A

\* SemanticAnalyzer.exit_scope
exit_scope(A) ==
    IF Len(A.scope_stack) > 1
    THEN [A EXCEPT !.scope_stack = SubSeq(@, 1, Len(@) - 1)]
    ELSE A

RECURSIVE LookupFrom(_, _, _)
\* Scope.lookup_symbol from the scope at index i: the index of the innermost
\* scope, at or below i, that holds the name; 0 for None
LookupFrom(scope_stack, i, name) ==
    IF i = 0 THEN 0
    ELSE IF name \in DOMAIN scope_stack[i].symbols THEN i
    ELSE LookupFrom(scope_stack, i - 1, name)

\* self.current_scope.lookup_symbol(name), as the index of the scope
lookup_symbol(A, name) == LookupFrom(A.scope_stack, Len(A.scope_stack), name)

SymbolAt(A, i, name) == A.scope_stack[i].symbols[name]

ComparisonOperators == {<<"=","=">>, <<"!","=">>, <<"<">>, <<">">>, <<"<","=">>, <<">","=">>}
LogicalOperators == {<<"&","&">>, <<"|","|">>}
ArithmeticOperators == {<<"+">>, <<"-">>, <<"*">>, <<"/">>, <<"%">>}
IncDecOperators == {<<"+","+">>, <<"-","-">>, <<"+","+">> \o S_post, <<"-","-">> \o S_post}

RECURSIVE visit_expression(_, _)
RECURSIVE VisitArguments(_, _, _, _)

\* SemanticAnalyzer.visit_identifier, the symbol looked up being in scope i
IdentifierFound(A, node, symbol) ==
    Returns(IF symbol.symbol_type = "variable" /\ ~symbol.is_initialized
            THEN error(A, Err("UsedBeforeInitialization", node.name, <<>>))
            ELSE A,
            symbol.data_type)

\* SemanticAnalyzer.visit_identifier
visit_identifier(A, node) ==
    IF lookup_symbol(A, node.name) = 0
    THEN Returns(error(A, Err("UndefinedIdentifier", node.name, <<>>)), S_unknown)
    ELSE IdentifierFound(A, node, SymbolAt(A, lookup_symbol(A, node.name), node.name))

\* The arithmetic branch of visit_binary_operation
ArithmeticResult(A, operator, left_type, right_type, compatible_type) ==
    IF compatible_type = NoType
    THEN Returns(error(A, Err("CannotPerform", left_type, right_type)), S_unknown)
    ELSE IF left_type = S_string \/ right_type = S_string
         THEN IF operator = <<"+">> THEN Returns(A, S_string)
              ELSE Returns(error(A, Err("CannotPerformOnStrings", operator, <<>>)), S_unknown)
         ELSE Returns(A, compatible_type)

\* SemanticAnalyzer.visit_binary_operation, both operands visited
BinaryResult(A, operator, left_type, right_type) ==
    IF operator \in ComparisonOperators
    THEN Returns(IF get_type_compatibility(left_type, right_type) = NoType
                 THEN error(A, Err("CannotCompare", left_type, right_type)) ELSE A,
                 S_bool)
    ELSE IF operator \in LogicalOperators
    THEN Returns(IF left_type \notin {S_bool, S_int} \/ right_type \notin {S_bool, S_int}
                 THEN error(A, Err("LogicalOperands", <<>>, <<>>)) ELSE A,
                 S_bool)
    ELSE IF operator = <<"<","<">>
    THEN IF left_type = S_ostream THEN Returns(A, S_ostream)
         ELSE Returns(error(A, Err("LeftShiftNeedsOstream", left_type, <<>>)), S_unknown)
    ELSE IF operator \in ArithmeticOperators
    THEN ArithmeticResult(A, operator, left_type, right_type,
                          get_type_compatibility(left_type, right_type))
    ELSE Returns(error(A, Err("UnknownBinaryOperator", operator, <<>>)), S_unknown)

\* SemanticAnalyzer.visit_binary_operation
visit_binary_operation(A, node) ==
    Then(visit_expression(A, node.left), LAMBDA A1 :
    Then(visit_expression(A1, node.right), LAMBDA A2 :
        BinaryResult(A2, node.operator, A1.type, A2.type)))

\* SemanticAnalyzer.visit_unary_operation, the operand visited
UnaryResult(A, node, operand_type) ==
    IF node.operator = <<"!">>
    THEN Returns(IF operand_type \notin {S_bool, S_int}
                 THEN error(A, Err("LogicalNotOperand", operand_type, <<>>)) ELSE A,
                 S_bool)
    ELSE IF node.operator \in {<<"+">>, <<"-">>}
    THEN Returns(IF operand_type \notin {S_int, S_float, S_double}
                 THEN error(A, Err("UnaryNeedsNumeric", node.operator, operand_type)) ELSE A,
                 operand_type)
    ELSE IF node.operator \in IncDecOperators
    THEN Then(IF operand_type \notin {S_int, S_float, S_double}
              THEN error(A, Err("IncDecNeedsNumeric", operand_type, <<>>)) ELSE A, LAMBDA A1 :
         Returns(IF node.operand.node # "Identifier"
                 THEN error(A1, Err("IncDecNeedsAssignable", <<>>, <<>>)) ELSE A1,
                 operand_type))
    ELSE Returns(error(A, Err("UnknownUnaryOperator", node.operator, <<>>)), S_unknown)

\* SemanticAnalyzer.visit_unary_operation
visit_unary_operation(A, node) ==
    Then(visit_expression(A, node.operand), LAMBDA A1 : UnaryResult(A1, node, A1.type))

\* The end of visit_assignment: the value visited (its type is A.type), the
\* target's symbol being in scope i
AssignmentResult(A, i, name, symbol) ==
    IF A.type # symbol.data_type /\ get_type_compatibility(symbol.data_type, A.type) = NoType
    THEN Returns(error(A, Err("CannotAssign", A.type, symbol.data_type)), symbol.data_type)
    ELSE Returns([A EXCEPT !.scope_stack[i].symbols[name].is_initialized = TRUE],
                 symbol.data_type)

\* SemanticAnalyzer.visit_assignment, the target's symbol found in scope i
AssignmentFound(A, node, i, symbol) ==
    IF symbol.symbol_type # "variable"
    THEN Returns(error(A, Err("CannotAssignTo", <<>>, <<>>)), S_unknown)
    ELSE Then(visit_expression(A, node.value), LAMBDA A1 :
             AssignmentResult(A1, i, node.target.name, symbol))

\* SemanticAnalyzer.visit_assignment
visit_assignment(A, node) ==
    IF lookup_symbol(A, node.target.name) = 0
    THEN Returns(error(A, Err("UndefinedVariable", node.target.name, <<>>)), S_unknown)
    ELSE AssignmentFound(A, node, lookup_symbol(A, node.target.name),
                         SymbolAt(A, lookup_symbol(A, node.target.name), node.target.name))

\* One argument of a call, visited (its type is A.type), against its
\* parameter
ArgumentChecked(A, param_type) ==
    IF A.type # param_type.name /\ get_type_compatibility(param_type.name, A.type) = NoType
    THEN error(A, Err("ArgumentTypeMismatch", param_type.name, A.type))
    ELSE A

\* `for i, (arg, (param_type, _)) in enumerate(zip(arguments, expected_params))`
\* from index i on
VisitArguments(A, arguments, expected_params, i) ==
    IF i > Len(arguments) THEN A
    ELSE Then(visit_expression(A, arguments[i]), LAMBDA A1 :
             VisitArguments(ArgumentChecked(A1, expected_params[i].type),
                            arguments, expected_params, i + 1))

\* SemanticAnalyzer.visit_function_call, the name looked up
FunctionCallFound(A, node, symbol) ==
    IF symbol.symbol_type # "function"
    THEN Returns(error(A, Err("NotAFunction", node.name, <<>>)), S_unknown)
    ELSE IF Len(node.arguments) # Len(symbol.parameters)
    THEN Returns(error(A, Err("ArgumentCount", node.name, <<>>)), symbol.data_type)
    ELSE Returns(VisitArguments(A, node.arguments, symbol.parameters, 1), symbol.data_type)

\* SemanticAnalyzer.visit_function_call; a call of the name cout is typed
\* without a look at its arguments
visit_function_call(A, node) ==
    IF node.name = S_cout THEN Returns(A, S_ostream)
    ELSE IF lookup_symbol(A, node.name) = 0
    THEN Returns(error(A, Err("UndefinedFunction", node.name, <<>>)), S_unknown)
    ELSE FunctionCallFound(A, node, SymbolAt(A, lookup_symbol(A, node.name), node.name))

\* SemanticAnalyzer.visit_expression
visit_expression(A, node) ==
    CASE node.node = "Literal" -> Returns(A, node.type_name)
      [] node.node = "Identifier" -> visit_identifier(A, node)
      [] node.node = "BinaryOperation" -> visit_binary_operation(A, node)
      [] node.node = "UnaryOperation" -> visit_unary_operation(A, node)
      [] node.node = "Assignment" -> visit_assignment(A, node)
      [] node.node = "FunctionCall" -> visit_function_call(A, node)
      [] OTHER -> Returns(error(A, Err("UnknownExpression", <<>>, <<>>)), S_unknown)

RECURSIVE visit_statement(_, _)
RECURSIVE VisitStatements(_, _, _)
RECURSIVE check_returns(_, _, _)
RECURSIVE CheckReturnsIn(_, _, _, _)

StartsWith(str, prefix) ==
    Len(str) >= Len(prefix) /\ SubSeq(str, 1, Len(prefix)) = prefix

\* The initializer of a variable declaration, visited (its type is A.type),
\* against the declared type
InitializerChecked(A, var_type_name) ==
    IF A.type # var_type_name /\ get_type_compatibility(var_type_name, A.type) = NoType
    THEN error(A, Err("CannotAssign", A.type, var_type_name))
    ELSE A

\* The end of visit_variable_declaration: `self.current_scope.define_symbol(symbol)`
DefineVariable(A, node) ==
    [A EXCEPT !.scope_stack[Len(A.scope_stack)] =
                  define_symbol(@, Symbol(node.name, "variable", node.var_type.name,
                                          ~IsNone(node.initializer), <<>>))]

\* SemanticAnalyzer.visit_variable_declaration, the type checked
DeclareVariable(A, node) ==
    IF node.name \in DOMAIN current_scope(A).symbols
    THEN error(A, Err("VariableAlreadyDefined", node.name, <<>>))
    ELSE IF ~IsNone(node.initializer)
         THEN Then(visit_expression(A, node.initializer), LAMBDA A1 :
                  DefineVariable(InitializerChecked(A1, node.var_type.name), node))
         ELSE DefineVariable(A, node)

\* SemanticAnalyzer.visit_variable_declaration
visit_variable_declaration(A, node) ==
    DeclareVariable(IF node.var_type.name \notin built_in_types
                       /\ node.var_type.name \notin A.user_types
                    THEN error(A, Err("UnknownType", node.var_type.name, <<>>))
                    ELSE A,
                    node)

\* `for statement in statements: self.visit_statement(statement)` from index i
VisitStatements(A, statements, i) ==
    IF i > Len(statements) THEN A
    ELSE Then(visit_statement(A, statements[i]), LAMBDA A1 :
             VisitStatements(A1, statements, i + 1))

need_new_scope_always(A) == TRUE

\* visit_block's test: a block opens a scope unless the current scope is the
\* scope of a function
need_new_scope(A) == ~StartsWith(current_scope(A).name, S_function_)

\* SemanticAnalyzer.visit_block
visit_block(A, node) ==
    IF need_new_scope(A)
    THEN Then(VisitStatements(enter_scope(A, S_block), node.statements, 1), exit_scope)
    ELSE VisitStatements(A, node.statements, 1)

\* A condition, visited (its type is A.type): it must be bool or int
ConditionChecked(A, kind) ==
    IF A.type \notin {S_bool, S_int} THEN error(A, Err(kind, A.type, <<>>)) ELSE A

\* A statement that may be absent (`if node.else_stmt:`, `if node.init:`)
VisitOptionalStatement(A, node) == IF IsNone(node) THEN A ELSE visit_statement(A, node)

\* SemanticAnalyzer.visit_if_statement
visit_if_statement(A, node) ==
    Then(visit_expression(A, node.condition), LAMBDA A1 :
    Then(visit_statement(ConditionChecked(A1, "IfCondition"), node.then_stmt), LAMBDA A2 :
        VisitOptionalStatement(A2, node.else_stmt)))

\* SemanticAnalyzer.visit_while_statement
visit_while_statement(A, node) ==
    Then(visit_expression(A, node.condition), LAMBDA A1 :
        visit_statement(ConditionChecked(A1, "WhileCondition"), node.body))

\* The condition clause of a for statement
VisitForCondition(A, node) ==
    IF IsNone(node.condition) THEN A
    ELSE Then(visit_expression(A, node.condition), LAMBDA A1 :
             ConditionChecked(A1, "ForCondition"))

\* The update clause of a for statement
VisitForUpdate(A, node) ==
    IF IsNone(node.update) THEN A ELSE visit_expression(A, node.update)

\* SemanticAnalyzer.visit_for_statement
visit_for_statement(A, node) ==
    Then(VisitOptionalStatement(enter_scope(A, S_for_loop), node.init), LAMBDA A1 :
    Then(VisitForCondition(A1, node), LAMBDA A2 :
    Then(VisitForUpdate(A2, node), LAMBDA A3 :
    Then(visit_statement(A3, node.body), exit_scope))))

\* A returned expression, visited (its type is A.type), against the
\* expected type
ReturnChecked(A, expected_type) ==
    IF A.type # expected_type /\ get_type_compatibility(expected_type, A.type) = NoType
    THEN error(A, Err("ReturnTypeMismatch", expected_type, A.type))
    ELSE A

\* A return statement against the expected type: the body of
\* visit_return_statement, and of check_returns for a ReturnStatement
ReturnAgainst(A, node, expected_type) ==
    IF ~IsNone(node.expression)
    THEN Then(visit_expression(A, node.expression), LAMBDA A1 :
             ReturnChecked(A1, expected_type))
    ELSE IF expected_type # S_void
         THEN error(A, Err("ReturnWithoutValue", expected_type, <<>>))
         ELSE A

\* SemanticAnalyzer.visit_return_statement
visit_return_statement(A, node) ==
    IF IsNone(A.current_function)
    THEN error(A, Err("ReturnOutsideFunction", <<>>, <<>>))
    ELSE ReturnAgainst(A, node, A.current_function.return_type.name)

\* SemanticAnalyzer.visit_statement
visit_statement(A, node) ==
    CASE node.node = "VariableDeclaration" -> visit_variable_declaration(A, node)
      [] node.node = "ExpressionStatement" -> visit_expression(A, node.expression)
      [] node.node = "Block" -> visit_block(A, node)
      [] node.node = "IfStatement" -> visit_if_statement(A, node)
      [] node.node = "WhileStatement" -> visit_while_statement(A, node)
      [] node.node = "ForStatement" -> visit_for_statement(A, node)
      [] node.node = "ReturnStatement" -> visit_return_statement(A, node)
      [] OTHER -> error(A, Err("UnknownStatement", <<>>, <<>>))

\* `for s in stmt.statements: check_returns(s)` from index i
CheckReturnsIn(A, statements, expected_type, i) ==
    IF i > Len(statements) THEN A
    ELSE Then(check_returns(A, statements[i], expected_type), LAMBDA A1 :
             CheckReturnsIn(A1, statements, expected_type, i + 1))

\* check_returns of SemanticAnalyzer.check_return_statements: the returned
\* expressions are visited again, in the scope that is current when the
\* function's body has been left
check_returns(A, stmt, expected_type) ==
    CASE stmt.node = "ReturnStatement" -> ReturnAgainst(A, stmt, expected_type)
      [] stmt.node = "Block" -> CheckReturnsIn(A, stmt.statements, expected_type, 1)
      [] stmt.node = "IfStatement" ->
            IF IsNone(stmt.else_stmt) THEN check_returns(A, stmt.then_stmt, expected_type)
            ELSE Then(check_returns(A, stmt.then_stmt, expected_type), LAMBDA A1 :
                     check_returns(A1, stmt.else_stmt, expected_type))
      [] stmt.node = "WhileStatement" -> check_returns(A, stmt.body, expected_type)
      [] stmt.node = "ForStatement" -> check_returns(A, stmt.body, expected_type)
      [] OTHER -> A

\* SemanticAnalyzer.check_return_statements
check_return_statements(A, body, expected_type) == check_returns(A, body, expected_type)

RECURSIVE AddParameters(_, _, _)
RECURSIVE DefineMembers(_, _, _, _)
RECURSIVE VisitDeclarations(_, _, _)

\* Scope.define_symbol raises SemanticError for a name the scope holds
define_symbol_raises(scope, name) == name \in DOMAIN scope.symbols

\* The SemanticError of define_symbol leaves the analyzer
Raise(A) == [A EXCEPT !.raised = TRUE]

\* A parameter's type checked, then `func_scope.define_symbol(param_symbol)`
AddParameter(A, param) ==
    IF define_symbol_raises(current_scope(A), param.name) THEN Raise(A)
    ELSE [A EXCEPT !.scope_stack[Len(A.scope_stack)] =
                       define_symbol(@, Symbol(param.name, "parameter", param.type.name,
                                               TRUE, <<>>))]

\* `for param_type, param_name in node.parameters` from index i
AddParameters(A, parameters, i) ==
    IF i > Len(parameters) THEN A
    ELSE Then(AddParameter(IF parameters[i].type.name \notin built_in_types
                           THEN error(A, Err("UnknownParameterType",
                                             parameters[i].type.name, <<>>))
                           ELSE A,
                           parameters[i]), LAMBDA A1 :
             AddParameters(A1, parameters, i + 1))

\* visit_function_declaration from `self.visit_statement(node.body)` on
VisitFunctionBody(A, node) ==
    Then(visit_statement(A, node.body), LAMBDA A1 :
    Then(check_return_statements(A1, node.body, node.return_type.name), LAMBDA A2 :
        [exit_scope(A2) EXCEPT !.current_function = NoneNode]))

\* visit_function_declaration from the creation of the function's symbol on
DefineFunction(A, node) ==
    Then(AddParameters(
             enter_scope([A EXCEPT !.scope_stack[Len(A.scope_stack)] =
                                       define_symbol(@, Symbol(node.name, "function",
                                                               node.return_type.name, FALSE,
                                                               node.parameters)),
                                   !.current_function = node],
                         S_function_ \o node.name),
             node.parameters, 1), LAMBDA A1 :
        VisitFunctionBody(A1, node))

\* visit_function_declaration from the check for an existing symbol on
DeclareFunction(A, node) ==
    IF node.name \in DOMAIN current_scope(A).symbols
    THEN error(A, Err("FunctionAlreadyDefined", node.name, <<>>))
    ELSE DefineFunction(A, node)

\* SemanticAnalyzer.visit_function_declaration
visit_function_declaration(A, node) ==
    DeclareFunction(IF node.return_type.name \notin built_in_types
                    THEN error(A, Err("UnknownReturnType", node.return_type.name, <<>>))
                    ELSE A,
                    node)

\* `for member in node.members: class_scope.define_symbol(...)` from index i;
\* the class scope is linked under the current scope and never looked up
DefineMembers(A, class_scope, members, i) ==
    IF i > Len(members) THEN A
    ELSE IF define_symbol_raises(class_scope, members[i].name) THEN Raise(A)
    ELSE DefineMembers(A, define_symbol(class_scope,
                                        Symbol(members[i].name, "member",
                                               members[i].var_type.name, FALSE, <<>>)),
                       members, i + 1)

\* SemanticAnalyzer.visit_class_declaration
visit_class_declaration(A, node) ==
    IF node.name \in built_in_types \/ node.name \in A.user_types
    THEN error(A, Err("TypeAlreadyDefined", node.name, <<>>))
    ELSE DefineMembers([A EXCEPT !.user_types = @ \cup {node.name}],
                       Scope(S_class_ \o node.name), node.members, 1)

\* SemanticAnalyzer.visit_using_namespace
visit_using_namespace(A, node) ==
    IF node.namespace # S_std THEN error(A, Err("UnknownNamespace", node.namespace, <<>>))
    ELSE A

\* SemanticAnalyzer.visit_include_directive: an unknown header is no error
visit_include_directive(A, node) == A

\* SemanticAnalyzer.visit_declaration
visit_declaration(A, node) ==
    CASE node.node = "IncludeDirective" -> visit_include_directive(A, node)
      [] node.node = "UsingNamespace" -> visit_using_namespace(A, node)
      [] node.node = "FunctionDeclaration" -> visit_function_declaration(A, node)
      [] node.node = "VariableDeclaration" -> visit_variable_declaration(A, node)
      [] node.node = "ClassDeclaration" -> visit_class_declaration(A, node)
      [] OTHER -> error(A, Err("UnknownDeclaration", <<>>, <<>>))

\* SemanticAnalyzer.visit_program from declaration i on
VisitDeclarations(A, decls, i) ==
    IF i > Len(decls) THEN A
    ELSE Then(visit_declaration(A, decls[i]), LAMBDA A1 : VisitDeclarations(A1, decls, i + 1))

\* SemanticAnalyzer.visit_program
visit_program(A, node) == VisitDeclarations(A, node.declarations, 1)

\* SemanticAnalyzer().analyze(ast): the analyzer when analyze has returned,
\* or with `raised` when a SemanticError left it
analyze(program) == visit_program(NewAnalyzer, program)

\* ------------------------------------------------------------------------
\* SemanticAnalyzer.analyze: the loop of visit_program
\* ------------------------------------------------------------------------
\* int x;
Stmt_Declare ==
    <<"i","n","t"," ","x",";">>

\* int x=1;
Stmt_DeclareInit ==
    <<"i","n","t"," ","x","=","1",";">>

\* x=2;
Stmt_Assign ==
    <<"x","=","2",";">>

\* x="s";
Stmt_AssignString ==
    <<"x","=","\"","s","\"",";">>

\* return x;
Stmt_ReturnX ==
    <<"r","e","t","u","r","n"," ","x",";">>

\* return;
Stmt_ReturnNothing ==
    <<"r","e","t","u","r","n",";">>

\* return "s";
Stmt_ReturnString ==
    <<"r","e","t","u","r","n"," ","\"","s","\"",";">>

\* {int x=3;}
Stmt_BlockDeclare ==
    <<"{","i","n","t"," ","x","=","3",";","}">>

\* for(int x=0;x<2;x++){int x=4;}
Stmt_ForDeclare ==
    <<"f","o","r","(","i","n","t"," ","x","=","0",";","x","<","2",";","x","+","+",")","{",
      "i","n","t"," ","x","=","4",";","}">>

\* for(int i=0;i<2;i++){return i;}
Stmt_ForReturn ==
    <<"f","o","r","(","i","n","t"," ","i","=","0",";","i","<","2",";","i","+","+",")","{",
      "r","e","t","u","r","n"," ","i",";","}">>

\* cout<<x<<endl;
Stmt_CoutChain ==
    <<"c","o","u","t","<","<","x","<","<","e","n","d","l",";">>

\* cout(x);
Stmt_CoutCall ==
    <<"c","o","u","t","(","x",")",";">>

\* if(x>0){int x=5;}else return 0;
Stmt_IfDeclare ==
    <<"i","f","(","x",">","0",")","{","i","n","t"," ","x","=","5",";","}","e","l","s","e",
      " ","r","e","t","u","r","n"," ","0",";">>

\* while(p){x=p;}
Stmt_WhileAssign ==
    <<"w","h","i","l","e","(","p",")","{","x","=","p",";","}">>

\* return g();
Stmt_ReturnCall ==
    <<"r","e","t","u","r","n"," ","g","(",")",";">>

\* for(;;){{int x=6;int x=7;}}
Stmt_ForBlockTwice ==
    <<"f","o","r","(",";",";",")","{","{","i","n","t"," ","x","=","6",";","i","n","t"," ",
      "x","=","7",";","}","}">>

\* void g(){}int main(){
Head_IntMain ==
    <<"v","o","i","d"," ","g","(",")","{","}","i","n","t"," ","m","a","i","n","(",")","{">>

\* void g(){}void f(int p){
Head_VoidF ==
    <<"v","o","i","d"," ","g","(",")","{","}","v","o","i","d"," ","f","(","i","n","t"," ",
      "p",")","{">>

\* int f(int a,int a){return a;}
Src_DuplicateParameter ==
    <<"i","n","t"," ","f","(","i","n","t"," ","a",",","i","n","t"," ","a",")","{","r","e",
      "t","u","r","n"," ","a",";","}">>

\* class A{int a;int a;};int main(){return 0;}
Src_DuplicateMember ==
    <<"c","l","a","s","s"," ","A","{","i","n","t"," ","a",";","i","n","t"," ","a",";","}",
      ";","i","n","t"," ","m","a","i","n","(",")","{","r","e","t","u","r","n"," ","0",";",
      "}">>

\* struct S{int a;float b;};class S{};int main(){return 0;}
Src_Struct ==
    <<"s","t","r","u","c","t"," ","S","{","i","n","t"," ","a",";","f","l","o","a","t"," ",
      "b",";","}",";","c","l","a","s","s"," ","S","{","}",";","i","n","t"," ","m","a","i",
      "n","(",")","{","r","e","t","u","r","n"," ","0",";","}">>

\* int x=1;int x;int cout;int main(){return x;}
Src_Globals ==
    <<"i","n","t"," ","x","=","1",";","i","n","t"," ","x",";","i","n","t"," ","c","o","u",
      "t",";","i","n","t"," ","m","a","i","n","(",")","{","r","e","t","u","r","n"," ","x",
      ";","}">>

\* int f(){return 1;}int f(){return 2;}
Src_FunctionTwice ==
    <<"i","n","t"," ","f","(",")","{","r","e","t","u","r","n"," ","1",";","}","i","n","t",
      " ","f","(",")","{","r","e","t","u","r","n"," ","2",";","}">>

\* int h(int a,float b){return a+b;}int main(){int y=h(1,2)+h(1);return h(y,"s")+k()+y(1);}
Src_Calls ==
    <<"i","n","t"," ","h","(","i","n","t"," ","a",",","f","l","o","a","t"," ","b",")","{",
      "r","e","t","u","r","n"," ","a","+","b",";","}","i","n","t"," ","m","a","i","n","(",
      ")","{","i","n","t"," ","y","=","h","(","1",",","2",")","+","h","(","1",")",";","r",
      "e","t","u","r","n"," ","h","(","y",",","\"","s","\"",")","+","k","(",")","+","y","(",
      "1",")",";","}">>

\* int main(){int y;y++;bool b=!y&&-y<1||"s"==1;float z=1.5*y-+b;return 1++ +z%2;}
Src_Operators ==
    <<"i","n","t"," ","m","a","i","n","(",")","{","i","n","t"," ","y",";","y","+","+",";",
      "b","o","o","l"," ","b","=","!","y","&","&","-","y","<","1","|","|","\"","s","\"","=",
      "=","1",";","f","l","o","a","t"," ","z","=","1",".","5","*","y","-","+","b",";","r",
      "e","t","u","r","n"," ","1","+","+"," ","+","z","%","2",";","}">>

\* int main(){cout<<"a"+"b"<<"a"-"b";1<<2;g=1;main=2;std::cout<<std::endl;return 0;}
Src_Strings ==
    <<"i","n","t"," ","m","a","i","n","(",")","{","c","o","u","t","<","<","\"","a","\"","+",
      "\"","b","\"","<","<","\"","a","\"","-","\"","b","\"",";","1","<","<","2",";","g","=",
      "1",";","m","a","i","n","=","2",";","s","t","d",":",":","c","o","u","t","<","<","s",
      "t","d",":",":","e","n","d","l",";","r","e","t","u","r","n"," ","0",";","}">>

\* void f(float q){if(q)q=1;while("s"){}for(;q;){}for(q=2;q<3;q=q+1)return 1;}
Src_Conditions ==
    <<"v","o","i","d"," ","f","(","f","l","o","a","t"," ","q",")","{","i","f","(","q",")",
      "q","=","1",";","w","h","i","l","e","(","\"","s","\"",")","{","}","f","o","r","(",";",
      "q",";",")","{","}","f","o","r","(","q","=","2",";","q","<","3",";","q","=","q","+",
      "1",")","r","e","t","u","r","n"," ","1",";","}">>


StmtPool ==
    {Stmt_Declare, Stmt_DeclareInit, Stmt_Assign, Stmt_AssignString,
     Stmt_ReturnX, Stmt_ReturnNothing, Stmt_ReturnString, Stmt_BlockDeclare,
     Stmt_ForDeclare, Stmt_ForReturn, Stmt_CoutChain, Stmt_CoutCall,
     Stmt_IfDeclare, Stmt_WhileAssign, Stmt_ReturnCall, Stmt_ForBlockTwice}

RECURSIVE BodiesOf(_)
\* The function bodies of exactly n statements of the pool
BodiesOf(n) == IF n = 0 THEN {<<>>} ELSE {b \o st : b \in BodiesOf(n - 1), st \in StmtPool}

\* Function bodies of one to MaxBodyStmts statements, in an int main() and
\* in a void f(int p), and sources for what a body cannot hold
SemSources ==
    {head \o body \o <<"}">> : head \in {Head_IntMain, Head_VoidF},
                             body \in UNION {BodiesOf(n) : n \in 1..MaxBodyStmts}}
    \cup {Src_DuplicateParameter, Src_DuplicateMember, Src_Struct, Src_Hello,
          Src_Globals, Src_FunctionTwice, Src_Calls, Src_Operators,
          Src_Strings, Src_Conditions}

SemInit == LexInitOn(SemSources)

\* SemanticAnalyzer() and analyze(ast) entered, ast being the Program that
\* Parser.parse has returned
AnalyzerInit ==
    /\ parsePc = "returned"
    /\ semPc = "idle"
    /\ ast' = Program(declarations)
    /\ analyzer' = NewAnalyzer
    /\ semPc' = "visit"
    /\ declIndex' = 1
    /\ UNCHANGED <<lexVars, parseVars, analyzeResult, backVars, srvVars, previous, typeVars>>

\* One iteration of `for declaration in node.declarations` of visit_program;
\* a SemanticError raised in it leaves analyze
VisitDeclaration ==
    /\ semPc = "visit"
    /\ declIndex <= Len(ast.declarations)
    /\ \E A \in {visit_declaration(analyzer, ast.declarations[declIndex])} :
           /\ analyzer' = A
           /\ semPc' = IF A.raised THEN "raised" ELSE "visit"
    /\ declIndex' = declIndex + 1
    /\ UNCHANGED <<lexVars, parseVars, ast, analyzeResult, backVars, srvVars, previous, typeVars>>

\* `return len(self.errors) == 0`
AnalyzeReturn ==
    /\ semPc = "visit"
    /\ declIndex > Len(ast.declarations)
    /\ semPc' = "returned"
    /\ analyzeResult' = (Len(analyzer.errors) = 0)
    /\ UNCHANGED <<lexVars, parseVars, ast, analyzer, declIndex, backVars, srvVars, previous, typeVars>>

SemNext == AnalyzerInit \/ VisitDeclaration \/ AnalyzeReturn

SpecSem == SemInit /\ [][LexNext \/ ParseNext \/ SemNext]_vars

\* ------------------------------------------------------------------------
\* C8: redefinition in the same scope, declaration in an inner scope
\*
\* The scoping rule of the statement, applied to the syntax tree on its own:
\* a walk W = [stack, redefined] keeps the names declared in each open
\* scope and lists, in source order, the declarations of a name that the
\* innermost open scope already holds.  A for statement opens a scope; a
\* block opens one under rule "every_block" always, under rule
\* "outside_function_scope" only if the innermost open scope is not the
\* scope of a function.
\* ------------------------------------------------------------------------
RECURSIVE C8_Statement(_, _, _)
RECURSIVE C8_Statements(_, _, _, _)

C8_Push(W, kind) == [W EXCEPT !.stack = Append(@, [kind |-> kind, names |-> {}])]
C8_Pop(W) == [W EXCEPT !.stack = SubSeq(@, 1, Len(@) - 1)]
C8_Top(W) == W.stack[Len(W.stack)]

C8_Declare(W, name) ==
    IF name \in C8_Top(W).names THEN [W EXCEPT !.redefined = Append(@, name)]
    ELSE [W EXCEPT !.stack[Len(W.stack)].names = @ \cup {name}]

C8_Statements(W, statements, i, rule) ==
    IF i > Len(statements) THEN W
    ELSE C8_Statements(C8_Statement(W, statements[i], rule), statements, i + 1, rule)

C8_Optional(W, stmt, rule) == IF IsNone(stmt) THEN W ELSE C8_Statement(W, stmt, rule)

C8_Statement(W, stmt, rule) ==
    CASE stmt.node = "VariableDeclaration" -> C8_Declare(W, stmt.name)
      [] stmt.node = "Block" ->
            IF rule = "every_block" \/ C8_Top(W).kind # "function"
            THEN C8_Pop(C8_Statements(C8_Push(W, "block"), stmt.statements, 1, rule))
            ELSE C8_Statements(W, stmt.statements, 1, rule)
      [] stmt.node = "IfStatement" ->
            C8_Optional(C8_Statement(W, stmt.then_stmt, rule), stmt.else_stmt, rule)
      [] stmt.node = "WhileStatement" -> C8_Statement(W, stmt.body, rule)
      [] stmt.node = "ForStatement" ->
            C8_Pop(C8_Statement(C8_Optional(C8_Push(W, "for"), stmt.init, rule),
                                stmt.body, rule))
      [] OTHER -> W

\* A function: its parameters and the statements of its body are in one scope
C8_Function(W, decl, rule) ==
    C8_Pop(C8_Statements(
        [W EXCEPT !.stack = Append(@, [kind |-> "function",
                                       names |-> {decl.parameters[i].name :
                                                      i \in 1..Len(decl.parameters)}])],
        decl.body.statements, 1, rule))

RECURSIVE C8_Declarations(_, _, _, _)
\* The top level: a function whose name is taken is not looked into
C8_Declarations(W, decls, i, rule) ==
    IF i > Len(decls) THEN W
    ELSE C8_Declarations(
             CASE decls[i].node = "VariableDeclaration" -> C8_Declare(W, decls[i].name)
               [] decls[i].node = "FunctionDeclaration" ->
                     IF decls[i].name \in C8_Top(W).names THEN W
                     ELSE C8_Function([W EXCEPT !.stack[1].names = @ \cup {decls[i].name}],
                                      decls[i], rule)
               [] OTHER -> W,
             decls, i + 1, rule)

\* The names whose declaration the rule rejects, in source order
C8_Redefined(program, rule) ==
    C8_Declarations([stack |-> <<[kind |-> "global",
                                  names |-> {S_cout, S_std_cout, S_endl, S_std_endl}]>>,
                     redefined |-> <<>>],
                    program.declarations, 1, rule).redefined

IsRedefinition(e) == e.kind = "VariableAlreadyDefined"

RECURSIVE C8_Names(_)
C8_Names(errs) == IF errs = <<>> THEN <<>> ELSE <<errs[1].s1>> \o C8_Names(Tail(errs))

\* The names of the "already defined in current scope" errors, in order
C8_Reported == C8_Names(SelectSeq(analyzer.errors, IsRedefinition))

\* C8 as stated: a declaration is reported as a redefinition exactly if its
\* name is already declared in the same scope, where every nested block and
\* every for loop is an inner scope of its own.
C8_EveryBlockIsAScope ==
    semPc = "returned" => C8_Reported = C8_Redefined(ast, "every_block")

\* C8, amended: a declaration is reported as a redefinition exactly if its
\* name is already declared in the same scope, where a for loop is an inner
\* scope, and a block is one unless it stands directly in the scope of a
\* function (the body of a function, and the blocks nested in it outside of
\* any for loop, share the function's scope with its parameters).
C8_RedefinitionBySourceScopes ==
    semPc = "returned" => C8_Reported = C8_Redefined(ast, "outside_function_scope")

\* int main(){int x=1;for(int x=0;x<2;x++){int x=4;}}: x declared again in a
\* for loop and in the block of its body, accepted; and
\* int main(){int x=1;int x;}: x declared again in the same scope, reported
C8_Witness ==
    /\ semPc = "returned"
    /\ \/ /\ source_code = Head_IntMain \o Stmt_DeclareInit \o Stmt_ForDeclare \o <<"}">>
          /\ analyzer.errors = <<>>
       \/ /\ source_code = Head_IntMain \o Stmt_DeclareInit \o Stmt_Declare \o <<"}">>
          /\ analyzer.errors = <<Err("VariableAlreadyDefined", <<"x">>, <<>>)>>

\* ------------------------------------------------------------------------
\* A reference walk for C7 and C9
\* ------------------------------------------------------------------------
\* A walk over the program in the order of the analysis that keeps, in W,
\* the declared types of the names in scope (types), the return types of the
\* functions (functions), the variables declared without an initializer and
\* not yet assigned (uninit), the names of those that an expression has read
\* (read), and whether a return statement was against the rule of C9 (bad).
\* W.ok is FALSE for the programs the walk does not decide: a name declared
\* twice (the builtin names count as declared), a variable declared in a
\* block that stands directly in a function's scope, or an assignment of
\* something else than a literal, a name or a call; W.typed is FALSE if a
\* returned expression is none of these.
RECURSIVE Walk_Expr(_, _)
RECURSIVE Walk_Exprs(_, _, _)
RECURSIVE Walk_Stmt(_, _)
RECURSIVE Walk_Stmts(_, _, _)
RECURSIVE Walk_Decls(_, _, _)

Walk_ValueType(W, e) ==
    CASE e.node = "Literal" -> e.type_name
      [] e.node = "Identifier" /\ e.name \in DOMAIN W.types -> W.types[e.name]
      [] e.node = "FunctionCall" /\ e.name \in DOMAIN W.functions -> W.functions[e.name]
      [] OTHER -> NoType

\* The promotion lattice admits a value of type `actual` where `expected` is
\* wanted
Walk_Compatible(expected, actual) ==
    actual = expected \/ get_type_compatibility(expected, actual) # NoType

\* The return statement s, its expression read: against the rule if it has
\* no value in a non-void function, a value in a void function, or a value
\* that the lattice does not admit for the declared return type
Walk_Return(W, s) ==
    CASE IsNone(s.expression) -> [W EXCEPT !.bad = @ \/ W.expected # S_void]
      [] ~IsNone(s.expression) /\ Walk_ValueType(W, s.expression) = NoType ->
            [W EXCEPT !.typed = FALSE]
      [] OTHER ->
            [W EXCEPT !.bad = \/ @
                              \/ W.expected = S_void
                              \/ ~Walk_Compatible(W.expected,
                                                  Walk_ValueType(W, s.expression))]

\* The assignment e, its value read: a type-correct one initialises its target
Walk_Assign(W, e) ==
    CASE e.target.name \notin DOMAIN W.types -> W
      [] e.target.name \in DOMAIN W.types /\ Walk_ValueType(W, e.value) = NoType ->
            [W EXCEPT !.ok = FALSE]
      [] OTHER ->
            IF Walk_Compatible(W.types[e.target.name], Walk_ValueType(W, e.value))
            THEN [W EXCEPT !.uninit = @ \ {e.target.name}]
            ELSE W

Walk_Exprs(W, exprs, i) ==
    IF i > Len(exprs) THEN W ELSE Walk_Exprs(Walk_Expr(W, exprs[i]), exprs, i + 1)

Walk_Expr(W, e) ==
    CASE e.node = "Identifier" ->
            IF e.name \in W.uninit THEN [W EXCEPT !.read = @ \cup {e.name}] ELSE W
      [] e.node = "BinaryOperation" -> Walk_Expr(Walk_Expr(W, e.left), e.right)
      [] e.node = "UnaryOperation" -> Walk_Expr(W, e.operand)
      [] e.node = "Assignment" -> Walk_Assign(Walk_Expr(W, e.value), e)
      [] e.node = "FunctionCall" -> Walk_Exprs(W, e.arguments, 1)
      [] OTHER -> W

Walk_OptionalExpr(W, e) == IF IsNone(e) THEN W ELSE Walk_Expr(W, e)

\* The declaration of a variable, its initializer read
Walk_Declare(W, s) ==
    IF s.name \in W.declared \/ W.level = "block" THEN [W EXCEPT !.ok = FALSE]
    ELSE [W EXCEPT !.types = (s.name :> s.var_type.name) @@ @,
                   !.declared = @ \cup {s.name},
                   !.uninit = IF IsNone(s.initializer) THEN @ \cup {s.name} ELSE @]

\* The end of a scope that was entered in W: the names declared in it are gone
Walk_Leave(W, inner) ==
    [inner EXCEPT !.types = W.types, !.uninit = @ \cap DOMAIN W.types, !.level = W.level]

Walk_Stmts(W, stmts, i) ==
    IF i > Len(stmts) THEN W ELSE Walk_Stmts(Walk_Stmt(W, stmts[i]), stmts, i + 1)

Walk_OptionalStmt(W, s) == IF IsNone(s) THEN W ELSE Walk_Stmt(W, s)

Walk_Stmt(W, s) ==
    CASE s.node = "VariableDeclaration" -> Walk_Declare(Walk_OptionalExpr(W, s.initializer), s)
      [] s.node = "ExpressionStatement" -> Walk_Expr(W, s.expression)
      [] s.node = "Block" ->
            Walk_Leave(W, Walk_Stmts([W EXCEPT !.level = IF @ = "function" THEN "block" ELSE @],
                                 s.statements, 1))
      [] s.node = "IfStatement" ->
            Walk_OptionalStmt(Walk_Stmt(Walk_Expr(W, s.condition), s.then_stmt), s.else_stmt)
      [] s.node = "WhileStatement" -> Walk_Stmt(Walk_Expr(W, s.condition), s.body)
      [] s.node = "ForStatement" ->
            Walk_Leave(W, Walk_Stmt(Walk_OptionalExpr(Walk_OptionalExpr(
                                    Walk_OptionalStmt([W EXCEPT !.level = "for"], s.init),
                                    s.condition), s.update),
                                s.body))
      [] s.node = "ReturnStatement" -> Walk_Return(Walk_OptionalExpr(W, s.expression), s)
      [] OTHER -> W

\* A function: its parameters are declared, initialised names of its scope
Walk_Function(W, decl) ==
    IF \/ decl.name \in W.declared
       \/ \E i \in 1..Len(decl.parameters) :
              \/ decl.parameters[i].name \in W.declared \cup {decl.name}
              \/ \E j \in 1..(i - 1) : decl.parameters[j].name = decl.parameters[i].name
    THEN [W EXCEPT !.ok = FALSE]
    ELSE Walk_Leave(W, Walk_Stmts(
             [W EXCEPT !.functions = (decl.name :> decl.return_type.name) @@ @,
                       !.expected = decl.return_type.name,
                       !.types = [n \in {decl.parameters[i].name :
                                            i \in 1..Len(decl.parameters)} |->
                                     (CHOOSE q \in {decl.parameters[i] :
                                                        i \in 1..Len(decl.parameters)} :
                                          q.name = n).type.name] @@ @,
                       !.declared = @ \cup {decl.name}
                                      \cup {decl.parameters[i].name :
                                                i \in 1..Len(decl.parameters)},
                       !.parameters = @ \cup {decl.parameters[i].name :
                                                  i \in 1..Len(decl.parameters)},
                       !.level = "function"],
             decl.body.statements, 1))

Walk_Decls(W, decls, i) ==
    IF i > Len(decls) THEN W
    ELSE Walk_Decls(CASE decls[i].node = "VariableDeclaration" -> Walk_Stmt(W, decls[i])
                    [] decls[i].node = "FunctionDeclaration" -> Walk_Function(W, decls[i])
                    [] OTHER -> W,
                  decls, i + 1)

Walk_Builtins == {S_cout, S_endl, S_std_cout, S_std_endl}

Walk(program) ==
    Walk_Decls([types |-> <<>>, functions |-> <<>>, expected |-> NoType,
                declared |-> Walk_Builtins, uninit |-> {}, read |-> {},
                parameters |-> {}, level |-> "global", bad |-> FALSE,
                ok |-> TRUE, typed |-> TRUE],
               program.declarations, 1)

\* The names of the "used before initialization" errors
C7_Flagged ==
    {analyzer.errors[i].s1 :
         i \in {j \in 1..Len(analyzer.errors) :
                    analyzer.errors[j].kind = "UsedBeforeInitialization"}}

\* C7: when analyze has returned, every variable that was declared without
\* an initializer and read before a type-correct assignment to it is named
\* by a "used before initialization" error, and analyze has returned False
\* if there is one; no such error names a parameter, cout, endl, std::cout
\* or std::endl.
C7_UninitializedReadReported ==
    semPc = "returned" /\ Walk(ast).ok =>
        /\ Walk(ast).read \subseteq C7_Flagged
        /\ (Walk(ast).read # {} => ~analyzeResult)
        /\ C7_Flagged \cap (Walk(ast).parameters \cup Walk_Builtins) = {}

\* The errors that a return statement records against the declared return type
C9_ReturnErrors ==
    {i \in 1..Len(analyzer.errors) :
         analyzer.errors[i].kind \in {"ReturnTypeMismatch", "ReturnWithoutValue"}}

\* C9: when analyze has returned, a return statement has recorded an error
\* (and analyze has returned False) exactly if some return statement has no
\* value in a non-void function, has a value in a void function, or has a
\* value whose type the promotion lattice does not admit for the declared
\* return type; returns whose type equals or is compatible with the declared
\* type record no return-type error.
C9_ReturnErrorsExactlyWhenBad ==
    semPc = "returned" /\ Walk(ast).ok /\ Walk(ast).typed =>
        /\ (C9_ReturnErrors # {}) = Walk(ast).bad
        /\ (Walk(ast).bad => ~analyzeResult)

\* ------------------------------------------------------------------------
\* C10: analyze never raises
\* ------------------------------------------------------------------------
\* C10: no SemanticError leaves analyze on a syntax tree of the parser, and
\* when analyze has returned its result is True exactly if the error list is
\* empty.
C10_AnalyzeNeverRaises ==
    /\ semPc # "raised"
    /\ (semPc = "returned" => analyzeResult = (analyzer.errors = <<>>))

\* ------------------------------------------------------------------------
\* CodeGenerator  (code_generator.py)
\*
\* CodeGenerator.output is the list of the emitted lines.  A line is a record
\*   [indent, k, name, target, value]
\* where indent is the number of four-space steps it starts with, k names
\* the Python statement it holds, and name, target, value are its parts; an
\* expression in it is kept as the tree of the text that generate_expression
\* has returned:
\*   [k |-> "name", name]            an identifier, True, False, None
\*   [k |-> "num", text]             str() of an int
\*   [k |-> "float", text]           str() of a float
\*   [k |-> "str", text]             repr() of a str
\*   [k |-> "bin", left, op, right]  "(left op right)"
\*   [k |-> "shift", left, right]    "left << right", not parenthesized
\*   [k |-> "unary", op, operand]    "(op operand)"
\*   [k |-> "call", name, args]      "name(arg, ...)"
\* The generator's state is a record G:
\*   output, indent_level, temp_var_count, in_main_function : as in the code
\*   code : the text returned by the last generate_expression
\* ------------------------------------------------------------------------
S_True == <<"T","r","u","e">>
S_False == <<"F","a","l","s","e">>
S_None == <<"N","o","n","e">>
S_sys == <<"s","y","s">>
S_math == <<"m","a","t","h">>
S_print == <<"p","r","i","n","t">>
S_cpp_runtime == <<"c","p","p","_","r","u","n","t","i","m","e">>
S_exit_code == <<"e","x","i","t","_","c","o","d","e">>
S_std_dot_cout == <<"s","t","d",".","c","o","u","t">>
S_temp_ == <<"_","_","t","e","m","p","_">>
S_not_ == <<"n","o","t"," ">>
S_and == <<" ","a","n","d"," ">>
S_or == <<" ","o","r"," ">>
S_no_main_found ==
    <<"N","o"," ","m","a","i","n"," ","f","u","n","c","t","i","o","n"," ","f","o","u","n","d">>

PyNothing == [k |-> "nothing"]
PyName(name) == [k |-> "name", name |-> name]
PyNum(text) == [k |-> "num", text |-> text]
PyFloat(text) == [k |-> "float", text |-> text]
PyStr(text) == [k |-> "str", text |-> text]
PyBin(left, op, right) == [k |-> "bin", left |-> left, op |-> op, right |-> right]
PyShift(left, right) == [k |-> "shift", left |-> left, right |-> right]
PyUnary(op, operand) == [k |-> "unary", op |-> op, operand |-> operand]
PyCall(name, args) == [k |-> "call", name |-> name, args |-> args]

\* A statement of the generated program, not yet indented
Line(k, name, target, value) ==
    [indent |-> 0, k |-> k, name |-> name, target |-> target, value |-> value]

\* # ... / an empty line
CommentLine == Line("comment", <<>>, PyNothing, PyNothing)
BlankLine == Line("blank", <<>>, PyNothing, PyNothing)
\* import <name>
ImportLine(name) == Line("import", name, PyNothing, PyNothing)
\* The lines of emit_runtime_support, which define CppRuntime, cpp_runtime,
\* cout, endl, StdNamespace, std, __lshift__ and cout_print
RuntimeSupportLines == Line("runtime_support", <<>>, PyNothing, PyNothing)
\* def <name>(<params>):
DefLine(name, params) == Line("def", name, PyNothing, params)
\* <target> = <value>
AssignLine(target, value) == Line("assign", <<>>, target, value)
\* <target> += 1  /  <target> -= 1
AugAssignLine(target, op) == Line("augassign", op, target, PyNum(<<"1">>))
\* <value>
ExprLine(value) == Line("expr", <<>>, PyNothing, value)
\* if <value>:  /  else:  /  while <value>:
IfLine(value) == Line("if", <<>>, PyNothing, value)
ElseLine == Line("else", <<>>, PyNothing, PyNothing)
WhileLine(value) == Line("while", <<>>, PyNothing, value)
\* return <value>
ReturnLine(value) == Line("return", <<>>, PyNothing, value)
\* cpp_runtime.set_return(<value>)
SetReturnLine(value) == Line("set_return", <<>>, PyNothing, value)
\* sys.exit(<value>)
SysExitLine(value) == Line("sys_exit", <<>>, PyNothing, value)
\* <name>.__lshift__(<value>), name being cout or std.cout
LshiftLine(name, value) == Line("lshift", name, PyNothing, value)
\* if __name__ == '__main__':
MainGuardLine == Line("main_guard", <<>>, PyNothing, PyNothing)
\* try:  /  except SystemExit:
TryLine == Line("try", <<>>, PyNothing, PyNothing)
ExceptSystemExitLine == Line("except", <<>>, PyNothing, PyNothing)
\* print(cpp_runtime.get_output(), end='')
PrintOutputLine == Line("print_output", <<>>, PyNothing, PyNothing)
\* sys.exit(exit_code if exit_code is not None else 0)
ExitWithCodeLine == Line("exit_with_code", <<>>, PyNothing, PyNothing)
\* sys.exit(cpp_runtime.return_value)
ExitWithReturnValueLine == Line("exit_with_return_value", <<>>, PyNothing, PyNothing)
\* print('No main function found')
PrintNoMainLine == Line("print_no_main", <<>>, PyNothing, PyNothing)

\* Python str() of an int
DigitChar(n) == CHOOSE c \in DigitChars : DigitValue(c) = n

RECURSIVE NatStr(_)
NatStr(n) ==
    IF n < 10 THEN <<DigitChar(n)>> ELSE Append(NatStr(n \div 10), DigitChar(n % 10))

IntStr(n) == IF n < 0 THEN <<"-">> \o NatStr(-n) ELSE NatStr(n)

\* The digits d without the zeros they start with / end with
RECURSIVE StripLeadingZeros(_)
StripLeadingZeros(d) ==
    IF d # <<>> /\ Head(d) = "0" THEN StripLeadingZeros(Tail(d)) ELSE d

RECURSIVE StripTrailingZeros(_)
StripTrailingZeros(d) ==
    IF d # <<>> /\ d[Len(d)] = "0" THEN StripTrailingZeros(SubSeq(d, 1, Len(d) - 1)) ELSE d

OrZero(d) == IF d = <<>> THEN <<"0">> ELSE d

\* The position of the dot in the lexeme of a float literal
DotAt(text) == CHOOSE i \in 1..Len(text) : text[i] = "."

\* Python str(float(text)) for a lexeme of digits with one dot, of less than
\* sixteen digits: the shortest decimal text of the number
FloatStr(text) ==
    OrZero(StripLeadingZeros(SubSeq(text, 1, DotAt(text) - 1))) \o <<".">>
        \o OrZero(StripTrailingZeros(SubSeq(text, DotAt(text) + 1, Len(text))))

\* A character of a string in Python's repr of it, q being the quote used
ReprChar(c, q) ==
    CASE c = "\\" -> <<"\\", "\\">>
      [] c = q -> <<"\\", q>>
      [] c = "\n" -> <<"\\", "n">>
      [] c = "\t" -> <<"\\", "t">>
      [] c = "\r" -> <<"\\", "r">>
      [] OTHER -> <<c>>

RECURSIVE ReprBody(_, _)
ReprBody(s, q) == IF s = <<>> THEN <<>> ELSE ReprChar(Head(s), q) \o ReprBody(Tail(s), q)

\* The quote of Python's repr of s: ' unless s holds a ' and no "
ReprQuote(s) ==
    IF (\E i \in 1..Len(s) : s[i] = "'") /\ ~(\E i \in 1..Len(s) : s[i] = "\"")
    THEN "\"" ELSE "'"

\* Python repr() of a str of printable characters, \n, \t and \r
repr(s) == <<ReprQuote(s)>> \o ReprBody(s, ReprQuote(s)) \o <<ReprQuote(s)>>

\* CodeGenerator.__init__
NewGenerator ==
    [output |-> <<>>, indent_level |-> 0, temp_var_count |-> 0,
     in_main_function |-> FALSE, code |-> PyNothing]

\* CodeGenerator.emit
emit(G, line) ==
    [G EXCEPT !.output = Append(@, [line EXCEPT !.indent = G.indent_level])]

\* CodeGenerator.emit_raw
emit_raw(G, line) == [G EXCEPT !.output = Append(@, line)]

\* CodeGenerator.increase_indent
increase_indent(G) == [G EXCEPT !.indent_level = @ + 1]

\* CodeGenerator.decrease_indent
decrease_indent(G) ==
    [G EXCEPT !.indent_level = IF @ - 1 > 0 THEN @ - 1 ELSE 0]

\* CodeGenerator.get_temp_var: the name is G.code, the counter has advanced
get_temp_var(G) ==
    [G EXCEPT !.code = PyName(S_temp_ \o IntStr(G.temp_var_count)),
              !.temp_var_count = @ + 1]

\* `return code` of a generate_* method of an expression
Returned(G, code) == [G EXCEPT !.code = code]

\* What follows a call in a method of the generator: K runs in the state G
\* that the call has left
AndThen(G, K(_)) == K(G)

\* CodeGenerator.get_default_value
get_default_value(type_name) ==
    CASE type_name = S_int -> PyNum(<<"0">>)
      [] type_name \in {S_float, S_double} -> PyFloat(<<"0", ".", "0">>)
      [] type_name = S_char -> PyStr(<<"'", "'">>)
      [] type_name = S_bool -> PyName(S_False)
      [] type_name = S_string -> PyStr(<<"\"", "\"">>)
      [] OTHER -> PyName(S_None)

\* CodeGenerator.generate_literal
generate_literal(G, node) ==
    CASE node.type_name \in {S_string, S_char} -> Returned(G, PyStr(repr(node.sval)))
      [] node.type_name = S_bool ->
            Returned(G, PyName(IF node.ival = 1 THEN S_True ELSE S_False))
      [] node.type_name = S_float -> Returned(G, PyFloat(FloatStr(node.sval)))
      [] OTHER -> Returned(G, PyNum(IntStr(node.ival)))

\* CodeGenerator.generate_identifier
generate_identifier(G, node) == Returned(G, PyName(node.name))

\* operator_map.get(node.operator, node.operator) of generate_binary_operation
operator_map(operator) ==
    CASE operator = <<"/">> -> <<"/", "/">>
      [] operator = <<"&", "&">> -> S_and
      [] operator = <<"|", "|">> -> S_or
      [] OTHER -> operator

\* The text that generate_binary_operation returns for the texts of the
\* operands
BinaryCode(operator, left_code, right_code) ==
    CASE operator = <<"<", "<">> -> PyShift(left_code, right_code)
      [] operator = <<"/">> -> PyBin(left_code, <<"/">>, right_code)
      [] OTHER -> PyBin(left_code, operator_map(operator), right_code)

RECURSIVE generate_expression(_, _)
RECURSIVE GenerateArguments(_, _, _, _)
RECURSIVE generate_statement(_, _)
RECURSIVE GenerateStatements(_, _, _)

\* CodeGenerator.generate_binary_operation
generate_binary_operation(G, node) ==
    AndThen(generate_expression(G, node.left), LAMBDA L :
    AndThen(generate_expression(L, node.right), LAMBDA R :
        Returned(R, BinaryCode(node.operator, L.code, R.code))))

\* The postfix branches of generate_unary_operation: T is the generator with
\* the temporary variable taken
PostfixCode(T, operand_code, op) ==
    Returned(emit(emit(T, AssignLine(T.code, operand_code)),
                  AugAssignLine(operand_code, op)),
             T.code)

\* generate_unary_operation, the operand generated
UnaryCode(G, operator, operand_code) ==
    CASE operator = <<"!">> -> Returned(G, PyUnary(S_not_, operand_code))
      [] operator \in {<<"-">>, <<"+">>} -> Returned(G, PyUnary(operator, operand_code))
      [] operator = <<"+", "+">> ->
            Returned(emit(G, AugAssignLine(operand_code, <<"+", "=">>)), operand_code)
      [] operator = <<"-", "-">> ->
            Returned(emit(G, AugAssignLine(operand_code, <<"-", "=">>)), operand_code)
      [] operator = <<"+", "+">> \o S_post ->
            PostfixCode(get_temp_var(G), operand_code, <<"+", "=">>)
      [] operator = <<"-", "-">> \o S_post ->
            PostfixCode(get_temp_var(G), operand_code, <<"-", "=">>)
      [] OTHER -> Returned(G, PyUnary(operator, operand_code))

\* CodeGenerator.generate_unary_operation
generate_unary_operation(G, node) ==
    AndThen(generate_expression(G, node.operand), LAMBDA O :
        UnaryCode(O, node.operator, O.code))

\* CodeGenerator.generate_assignment
generate_assignment(G, node) ==
    AndThen(generate_expression(G, node.target), LAMBDA T :
    AndThen(generate_expression(T, node.value), LAMBDA V :
        Returned(emit(V, AssignLine(T.code, V.code)), T.code)))

\* The loop over node.arguments of generate_function_call: G.code is the
\* list arg_codes at the end
GenerateArguments(G, arguments, i, arg_codes) ==
    IF i > Len(arguments) THEN Returned(G, arg_codes)
    ELSE AndThen(generate_expression(G, arguments[i]), LAMBDA A :
             GenerateArguments(A, arguments, i + 1, Append(arg_codes, A.code)))

\* CodeGenerator.generate_function_call
generate_function_call(G, node) ==
    CASE node.name = S_cout /\ Len(node.arguments) = 1 ->
            AndThen(generate_expression(G, node.arguments[1]), LAMBDA A :
                Returned(A, PyShift(PyName(S_cout), A.code)))
      [] node.name = S_cout /\ Len(node.arguments) # 1 -> Returned(G, PyName(S_cout))
      [] OTHER ->
            AndThen(GenerateArguments(G, node.arguments, 1, <<>>), LAMBDA A :
                Returned(A, PyCall(node.name, A.code)))

\* CodeGenerator.generate_expression
generate_expression(G, node) ==
    CASE node.node = "Literal" -> generate_literal(G, node)
      [] node.node = "Identifier" -> generate_identifier(G, node)
      [] node.node = "BinaryOperation" -> generate_binary_operation(G, node)
      [] node.node = "UnaryOperation" -> generate_unary_operation(G, node)
      [] node.node = "Assignment" -> generate_assignment(G, node)
      [] node.node = "FunctionCall" -> generate_function_call(G, node)

\* CodeGenerator.generate_variable_declaration
generate_variable_declaration(G, node) ==
    IF ~IsNone(node.initializer)
    THEN AndThen(generate_expression(G, node.initializer), LAMBDA I :
             emit(I, AssignLine(PyName(node.name), I.code)))
    ELSE emit(G, AssignLine(PyName(node.name), get_default_value(node.var_type.name)))

IsShift(node) == node.node = "BinaryOperation" /\ node.operator = <<"<", "<">>

\* The `while isinstance(current, BinaryOperation) ...` loop of
\* generate_cout_chain: the node `current` ends at, and the list args
\* reversed, which is the operands in source order
RECURSIVE ChainHead(_)
ChainHead(node) == IF IsShift(node) THEN ChainHead(node.left) ELSE node

RECURSIVE ChainArgumentsCollected(_)
\* A generate_cout_chain that emits the operands in the order in which its
\* loop has collected them, the last one first
ChainArgumentsCollected(node) ==
    IF IsShift(node) THEN <<node.right>> \o ChainArgumentsCollected(node.left) ELSE <<>>

RECURSIVE ChainArguments(_)
ChainArguments(node) ==
    IF IsShift(node) THEN Append(ChainArguments(node.left), node.right) ELSE <<>>

\* The `for arg in args` loop of generate_cout_chain
RECURSIVE EmitLshifts(_, _, _, _)
EmitLshifts(G, cout_obj, args, i) ==
    IF i > Len(args) THEN G
    ELSE AndThen(generate_expression(G, args[i]), LAMBDA A :
             EmitLshifts(emit(A, LshiftLine(cout_obj, A.code)), cout_obj, args, i + 1))

\* CodeGenerator.generate_cout_chain
generate_cout_chain(G, node) ==
    IF ChainHead(node).node = "Identifier" /\ ChainHead(node).name \in {S_cout, S_std_cout}
    THEN EmitLshifts(G, IF ChainHead(node).name = S_std_cout THEN S_std_dot_cout ELSE S_cout,
                     ChainArguments(node), 1)
    ELSE AndThen(generate_expression(G, node), LAMBDA E : emit(E, ExprLine(E.code)))

\* CodeGenerator.generate_expression_statement
generate_expression_statement(G, node) ==
    IF IsShift(node.expression) THEN generate_cout_chain(G, node.expression)
    ELSE AndThen(generate_expression(G, node.expression), LAMBDA E :
             emit(E, ExprLine(E.code)))

\* The loop of CodeGenerator.generate_block
GenerateStatements(G, statements, i) ==
    IF i > Len(statements) THEN G
    ELSE GenerateStatements(generate_statement(G, statements[i]), statements, i + 1)

\* CodeGenerator.generate_block
generate_block(G, node) == GenerateStatements(G, node.statements, 1)

\* A statement generated one indentation level deeper
Indented(G, stmt) == decrease_indent(generate_statement(increase_indent(G), stmt))

\* The else part of generate_if_statement
GenerateElse(G, node) ==
    IF ~IsNone(node.else_stmt) THEN Indented(emit(G, ElseLine), node.else_stmt) ELSE G

\* CodeGenerator.generate_if_statement
generate_if_statement(G, node) ==
    AndThen(generate_expression(G, node.condition), LAMBDA C :
        GenerateElse(Indented(emit(C, IfLine(C.code)), node.then_stmt), node))

\* CodeGenerator.generate_while_statement
generate_while_statement(G, node) ==
    AndThen(generate_expression(G, node.condition), LAMBDA C :
        Indented(emit(C, WhileLine(C.code)), node.body))

\* The condition of generate_for_statement
GenerateForCondition(G, node) ==
    IF ~IsNone(node.condition) THEN generate_expression(G, node.condition)
    ELSE Returned(G, PyName(S_True))

\* The update of generate_for_statement, in the loop's body
GenerateForUpdate(G, node) ==
    IF ~IsNone(node.update)
    THEN AndThen(generate_expression(G, node.update), LAMBDA U : emit(U, ExprLine(U.code)))
    ELSE G

\* CodeGenerator.generate_for_statement
generate_for_statement(G, node) ==
    AndThen(IF ~IsNone(node.init) THEN generate_statement(G, node.init) ELSE G, LAMBDA I :
    AndThen(GenerateForCondition(I, node), LAMBDA C :
        decrease_indent(GenerateForUpdate(
            generate_statement(increase_indent(emit(C, WhileLine(C.code))), node.body),
            node))))

\* CodeGenerator.generate_return_statement
generate_return_statement(G, node) ==
    CASE G.in_main_function /\ ~IsNone(node.expression) ->
            AndThen(generate_expression(G, node.expression), LAMBDA E :
                emit(emit(E, SetReturnLine(E.code)), SysExitLine(E.code)))
      [] G.in_main_function /\ IsNone(node.expression) ->
            emit(emit(G, SetReturnLine(PyNum(<<"0">>))), SysExitLine(PyNum(<<"0">>)))
      [] ~G.in_main_function /\ ~IsNone(node.expression) ->
            AndThen(generate_expression(G, node.expression), LAMBDA E :
                emit(E, ReturnLine(E.code)))
      [] OTHER -> emit(G, ReturnLine(PyName(S_None)))

\* CodeGenerator.generate_statement
generate_statement(G, node) ==
    CASE node.node = "VariableDeclaration" -> generate_variable_declaration(G, node)
      [] node.node = "ExpressionStatement" -> generate_expression_statement(G, node)
      [] node.node = "Block" -> generate_block(G, node)
      [] node.node = "IfStatement" -> generate_if_statement(G, node)
      [] node.node = "WhileStatement" -> generate_while_statement(G, node)
      [] node.node = "ForStatement" -> generate_for_statement(G, node)
      [] node.node = "ReturnStatement" -> generate_return_statement(G, node)
      [] OTHER -> emit(G, CommentLine)

\* The default return that generate_function_declaration adds
DefaultReturn(node) ==
    CASE node.return_type.name = S_void -> ReturnLine(PyName(S_None))
      [] node.return_type.name = S_int /\ node.name = S_main -> ReturnLine(PyNum(<<"0">>))
      [] OTHER -> ReturnLine(get_default_value(node.return_type.name))

\* CodeGenerator.generate_function_declaration
generate_function_declaration(G, node) ==
    AndThen(generate_statement(
                [increase_indent(emit_raw(G, DefLine(node.name,
                     [i \in 1..Len(node.parameters) |-> node.parameters[i].name])))
                 EXCEPT !.in_main_function = @ \/ node.name = S_main],
                node.body), LAMBDA B :
        [emit_raw(decrease_indent(emit(B, DefaultReturn(node))), BlankLine)
         EXCEPT !.in_main_function = @ /\ node.name # S_main])

\* The first loop of generate_program: the functions and the classes
RECURSIVE GenerateDeclarations(_, _, _)
GenerateDeclarations(G, decls, i) ==
    CASE i > Len(decls) -> G
      [] i <= Len(decls) /\ decls[i].node = "FunctionDeclaration" ->
            GenerateDeclarations(generate_function_declaration(G, decls[i]), decls, i + 1)
      [] i <= Len(decls) /\ decls[i].node = "ClassDeclaration" ->
            GenerateDeclarations(emit_raw(G, CommentLine), decls, i + 1)
      [] OTHER -> GenerateDeclarations(G, decls, i + 1)

\* The lines that call main, emitted for the first function named main
MainCallLines(G) ==
    decrease_indent(emit(emit(
        increase_indent(emit(
            decrease_indent(emit(emit(emit(
                increase_indent(emit(G, TryLine)),
                AssignLine(PyName(S_exit_code), PyCall(S_main, <<>>))),
                PrintOutputLine),
                ExitWithCodeLine)),
            ExceptSystemExitLine)),
        PrintOutputLine),
        ExitWithReturnValueLine))

\* main_found of generate_program
MainFound(node) ==
    \E i \in 1..Len(node.declarations) :
        /\ node.declarations[i].node = "FunctionDeclaration"
        /\ node.declarations[i].name = S_main

\* CodeGenerator.generate_program
generate_program(G, node) ==
    AndThen(increase_indent(emit_raw(emit_raw(emit_raw(
                GenerateDeclarations(G, node.declarations, 1),
                BlankLine), CommentLine), MainGuardLine)), LAMBDA M :
        decrease_indent(
            IF MainFound(node) THEN MainCallLines(M)
            ELSE emit(emit(M, PrintNoMainLine), SysExitLine(PyNum(<<"1">>)))))

\* CodeGenerator.emit_runtime_support
emit_runtime_support(G) == emit_raw(G, RuntimeSupportLines)

\* CodeGenerator(analyzer).generate(ast): the lines of generated_code
generate(program) ==
    emit_raw(emit_raw(
        generate_program(
            emit_runtime_support(
                emit_raw(emit_raw(emit_raw(emit_raw(NewGenerator,
                    CommentLine), ImportLine(S_sys)), ImportLine(S_math)), BlankLine)),
            program),
        BlankLine), CommentLine).output

\* ------------------------------------------------------------------------
\* exec(generated_code, exec_globals)
\*
\* Python compiles the generated lines to a tree of statements and runs it.
\* A statement of the tree is a line with its suites:
\*   [k, name, target, value, body, orelse]
\* body is the suite of a def, if, while, try or of the __main__ guard;
\* orelse is the suite of the else of an if, or of the except of a try.
\* ------------------------------------------------------------------------
S_name_ == <<"_","_","n","a","m","e","_","_">>
S_main_ == <<"_","_","m","a","i","n","_","_">>
S_str == <<"s","t","r">>
S_isinstance == <<"i","s","i","n","s","t","a","n","c","e">>
S_cout_print == <<"c","o","u","t","_","p","r","i","n","t">>
S_lshift_ == <<"_","_","l","s","h","i","f","t","_","_">>
S_CppRuntime == <<"C","p","p","R","u","n","t","i","m","e">>
S_StdNamespace == <<"S","t","d","N","a","m","e","s","p","a","c","e">>

\* keyword.kwlist
PyKeywords ==
    {<<"F","a","l","s","e">>, <<"N","o","n","e">>, <<"T","r","u","e">>,
     <<"a","n","d">>, <<"a","s">>, <<"a","s","s","e","r","t">>,
     <<"a","s","y","n","c">>, <<"a","w","a","i","t">>, <<"b","r","e","a","k">>,
     <<"c","l","a","s","s">>, <<"c","o","n","t","i","n","u","e">>, <<"d","e","f">>,
     <<"d","e","l">>, <<"e","l","i","f">>, <<"e","l","s","e">>,
     <<"e","x","c","e","p","t">>, <<"f","i","n","a","l","l","y">>, <<"f","o","r">>,
     <<"f","r","o","m">>, <<"g","l","o","b","a","l">>, <<"i","f">>,
     <<"i","m","p","o","r","t">>, <<"i","n">>, <<"i","s">>,
     <<"l","a","m","b","d","a">>, <<"n","o","n","l","o","c","a","l">>, <<"n","o","t">>,
     <<"o","r">>, <<"p","a","s","s">>, <<"r","a","i","s","e">>,
     <<"r","e","t","u","r","n">>, <<"t","r","y">>, <<"w","h","i","l","e">>,
     <<"w","i","t","h">>, <<"y","i","e","l","d">>}

\* The printable characters in the order of their code points, from 32 (the
\* grave accent, which no string of the model holds, is written <grave>)
Ascii ==
    <<" ", "!", "\"", "#", "$", "%", "&", "'", "(", ")", "*", "+", ",", "-", ".",
      "/", "0", "1", "2", "3", "4", "5", "6", "7", "8", "9", ":", ";", "<", "=", ">",
      "?", "@", "A", "B", "C", "D", "E", "F", "G", "H", "I", "J", "K", "L", "M", "N",
      "O", "P", "Q", "R", "S", "T", "U", "V", "W", "X", "Y", "Z", "[", "\\", "]",
      "^", "_", "<grave>", "a", "b", "c", "d", "e", "f", "g", "h", "i", "j", "k", "l", "m",
      "n", "o", "p", "q", "r", "s", "t", "u", "v", "w", "x", "y", "z", "{", "|", "}",
      "~">>

\* ord(c)
CharCode(c) == 31 + (CHOOSE i \in 1..Len(Ascii) : Ascii[i] = c)

IsPyIdentifier(name) ==
    /\ name # <<>>
    /\ \A i \in 1..Len(name) :
           \/ name[i] = "_"
           \/ (CharCode(name[i]) >= 48 /\ CharCode(name[i]) <= 57 /\ i > 1)
           \/ (CharCode(name[i]) >= 65 /\ CharCode(name[i]) <= 90)
           \/ (CharCode(name[i]) >= 97 /\ CharCode(name[i]) <= 122)

\* A name that Python's parser takes where a value is read
IsPyName(name) == IsPyIdentifier(name) /\ name \notin PyKeywords \ {S_True, S_False, S_None}

\* A name that Python's parser takes where a name is bound
IsPyTarget(name) == IsPyIdentifier(name) /\ name \notin PyKeywords

\* Whether Python's parser takes the text of an expression
RECURSIVE ExprOk(_)
ExprOk(code) ==
    CASE code.k = "name" -> IsPyName(code.name)
      [] code.k \in {"num", "float", "str"} -> TRUE
      [] code.k \in {"bin", "shift"} -> ExprOk(code.left) /\ ExprOk(code.right)
      [] code.k = "unary" -> ExprOk(code.operand)
      [] code.k = "call" ->
            IsPyName(code.name) /\ \A i \in 1..Len(code.args) : ExprOk(code.args[i])
      [] OTHER -> FALSE

\* Whether Python's parser takes a line as a statement or as the header of one
LineOk(line) ==
    CASE line.k = "assign" ->
            line.target.k = "name" /\ IsPyTarget(line.target.name) /\ ExprOk(line.value)
      [] line.k = "augassign" -> line.target.k = "name" /\ IsPyTarget(line.target.name)
      [] line.k \in {"expr", "if", "while", "return", "set_return", "sys_exit", "lshift"} ->
            ExprOk(line.value)
      [] line.k = "def" ->
            /\ IsPyTarget(line.name)
            /\ \A i \in 1..Len(line.value) : IsPyTarget(line.value[i])
            /\ \A i, j \in 1..Len(line.value) : line.value[i] = line.value[j] => i = j
      [] OTHER -> TRUE

\* The first line from i on that is neither empty nor a comment
RECURSIVE SkipTrivia(_, _)
SkipTrivia(lines, i) ==
    IF i <= Len(lines) /\ lines[i].k \in {"comment", "blank"}
    THEN SkipTrivia(lines, i + 1) ELSE i

PyNode(line, body, orelse) ==
    [k |-> line.k, name |-> line.name, target |-> line.target, value |-> line.value,
     body |-> body, orelse |-> orelse]

RECURSIVE PyStatementsAt(_, _, _, _)
RECURSIVE PyStatement(_, _, _)

\* The statements at the indentation ind from line i on
PyStatements(lines, i, ind, stmts) == PyStatementsAt(lines, SkipTrivia(lines, i), ind, stmts)

\* The indented suite that has to follow the header in line i - 1
PySuite(lines, i, ind) ==
    Bind(PyStatements(lines, i, ind + 1, <<>>), LAMBDA b :
        IF b.node = <<>> THEN PRaise("IndentationError", i) ELSE b)

\* The optional else of an if whose suite has ended before line j
PyElse(lines, j, ind, line, body) ==
    IF j <= Len(lines) /\ lines[j].k = "else" /\ lines[j].indent = ind
    THEN Bind(PySuite(lines, j + 1, ind), LAMBDA e : POk(e.pos, PyNode(line, body, e.node)))
    ELSE POk(j, PyNode(line, body, <<>>))

\* The except of a try whose suite has ended before line j
PyExcept(lines, j, ind, line, body) ==
    IF j <= Len(lines) /\ lines[j].k = "except" /\ lines[j].indent = ind
    THEN Bind(PySuite(lines, j + 1, ind), LAMBDA e : POk(e.pos, PyNode(line, body, e.node)))
    ELSE PRaise("SyntaxError", j)

PyStatement(lines, j, ind) ==
    CASE ~LineOk(lines[j]) -> PRaise("SyntaxError", j)
      [] LineOk(lines[j]) /\ lines[j].k \in {"def", "while", "main_guard"} ->
            Bind(PySuite(lines, j + 1, ind), LAMBDA b :
                POk(b.pos, PyNode(lines[j], b.node, <<>>)))
      [] LineOk(lines[j]) /\ lines[j].k = "if" ->
            Bind(PySuite(lines, j + 1, ind), LAMBDA b :
                PyElse(lines, SkipTrivia(lines, b.pos), ind, lines[j], b.node))
      [] LineOk(lines[j]) /\ lines[j].k = "try" ->
            Bind(PySuite(lines, j + 1, ind), LAMBDA b :
                PyExcept(lines, SkipTrivia(lines, b.pos), ind, lines[j], b.node))
      [] OTHER -> POk(j + 1, PyNode(lines[j], <<>>, <<>>))

PyStatementsAt(lines, j, ind, stmts) ==
    CASE j > Len(lines) -> POk(j, stmts)
      [] j <= Len(lines) /\ lines[j].indent < ind -> POk(j, stmts)
      [] j <= Len(lines) /\ lines[j].indent > ind -> PRaise("IndentationError", j)
      [] j <= Len(lines) /\ lines[j].indent = ind /\ lines[j].k \in {"else", "except"} ->
            POk(j, stmts)
      [] OTHER ->
            Bind(PyStatement(lines, j, ind), LAMBDA st :
                PyStatements(lines, st.pos, ind, Append(stmts, st.node)))

\* compile(generated_code): the statements of the module, or the SyntaxError
PyCompile(lines) ==
    Bind(PyStatements(lines, 1, 0, <<>>), LAMBDA m :
        IF m.pos <= Len(lines) THEN PRaise("SyntaxError", m.pos) ELSE m)

\* ------------------------------------------------------------------------
\* Python values: [t, n, d, s]
\*   int and bool hold n; a float is the fraction n / d in lowest terms with
\*   d > 0; a str holds its characters s; a function holds its name in s;
\*   any other object holds a tag in s.
\* ------------------------------------------------------------------------
RECURSIVE Gcd(_, _)
Gcd(a, b) == IF b = 0 THEN a ELSE Gcd(b, a % b)

Abs(n) == IF n < 0 THEN -n ELSE n

VInt(n) == [t |-> "int", n |-> n, d |-> 1, s |-> <<>>]
VBool(b) == [t |-> "bool", n |-> IF b THEN 1 ELSE 0, d |-> 1, s |-> <<>>]
VFloat(n, d) ==
    [t |-> "float", n |-> n \div Gcd(Abs(n), d), d |-> d \div Gcd(Abs(n), d), s |-> <<>>]
VStr(s) == [t |-> "str", n |-> 0, d |-> 1, s |-> s]
VNone == [t |-> "None", n |-> 0, d |-> 1, s |-> <<>>]
VObj(tag) == [t |-> "object", n |-> 0, d |-> 1, s |-> <<tag>>]
VFunc(name) == [t |-> "function", n |-> 0, d |-> 1, s |-> name]

\* The instance of CppRuntime that cpp_runtime, cout and std.cout name
TheRuntime == VObj("cpp_runtime")

IsNumber(v) == v.t \in {"int", "bool", "float"}
IsIntLike(v) == v.t \in {"int", "bool"}

\* bool(v)
Truthy(v) ==
    CASE IsNumber(v) -> v.n # 0
      [] v.t = "str" -> v.s # <<>>
      [] v.t = "None" -> FALSE
      [] OTHER -> TRUE

\* l == r
PyEquals(l, r) ==
    IF IsNumber(l) /\ IsNumber(r) THEN l.n * r.d = r.n * l.d
    ELSE l.t = r.t /\ l.s = r.s

\* The value of the fraction n / d, d # 0, of the type the operands give
Number(l, r, n, d) ==
    IF l.t = "float" \/ r.t = "float"
    THEN (IF d < 0 THEN VFloat(-n, -d) ELSE VFloat(n, d))
    ELSE VInt(n \div d)

\* a % b of Python, the sign of the result being that of b
PyMod(a, b) == IF b > 0 THEN a % b ELSE -((-a) % (-b))

\* The digits after the point of r / d, which has to be a finite decimal
RECURSIVE FractionDigits(_, _)
FractionDigits(r, d) ==
    IF r = 0 THEN <<>>
    ELSE <<DigitChar((r * 10) \div d)>> \o FractionDigits((r * 10) % d, d)

RECURSIVE WithoutFactor(_, _)
WithoutFactor(d, p) == IF d % p = 0 THEN WithoutFactor(d \div p, p) ELSE d

IsFiniteDecimal(d) == WithoutFactor(WithoutFactor(d, 2), 5) = 1

\* str() of a float that is a finite decimal of less than sixteen digits
FloatText(n, d) ==
    (IF n < 0 THEN <<"-">> ELSE <<>>) \o NatStr(Abs(n) \div d) \o <<".">>
        \o OrZero(FractionDigits(Abs(n) % d, d))

\* "<function "
S_function_repr == <<"<","f","u","n","c","t","i","o","n"," ">>
\* " at 0x"
S_at_0x == <<" ","a","t"," ","0","x">>
\* "<__main__."
S_main_dot == <<"<","_","_","m","a","i","n","_","_",".">>
\* " object"
S_object == <<" ","o","b","j","e","c","t">>

\* The name in the repr of an object of the runtime support
S_ObjectName(v) ==
    CASE v.s = <<"cpp_runtime">> -> S_CppRuntime
      [] v.s = <<"std">> -> S_StdNamespace
      [] v.s = <<"__lshift__">> -> S_lshift_
      [] v.s = <<"cout_print">> -> S_cout_print

\* The objects whose repr shows where they are in memory: the functions
\* and the instances of the classes of the runtime support
HasAddress(v) ==
    \/ v.t = "function"
    \/ v.t = "object" /\ v.s \in {<<"cpp_runtime">>, <<"std">>, <<"__lshift__">>, <<"cout_print">>}

\* object.__repr__ and the repr of a function; S.heap stands for the place
\* at which the run has found room for the object
ObjectText(S, v) ==
    CASE v.t = "function" ->
            S_function_repr \o v.s \o S_at_0x \o NatStr(S.heap) \o <<">">>
      [] v.t = "object" /\ HasAddress(v) /\ v.s \in {<<"__lshift__">>, <<"cout_print">>} ->
            S_function_repr \o S_ObjectName(v) \o S_at_0x \o NatStr(S.heap) \o <<">">>
      [] v.t = "object" /\ HasAddress(v) /\ v.s \in {<<"cpp_runtime">>, <<"std">>} ->
            S_main_dot \o S_ObjectName(v) \o S_object \o S_at_0x \o NatStr(S.heap) \o <<">">>
      [] v.t = "object" /\ ~HasAddress(v) -> <<"<">> \o v.s \o <<">">>

\* str(v), in the run S
Str(S, v) ==
    CASE v.t = "int" -> IntStr(v.n)
      [] v.t = "bool" -> IF v.n = 1 THEN S_True ELSE S_False
      [] v.t = "float" /\ IsFiniteDecimal(v.d) -> FloatText(v.n, v.d)
      [] v.t = "str" -> v.s
      [] v.t = "None" -> S_None
      [] v.t \in {"object", "function"} -> ObjectText(S, v)

\* The int that a text of digits denotes
RECURSIVE PyInt(_)
PyInt(text) ==
    IF text = <<>> THEN 0
    ELSE 10 * PyInt(SubSeq(text, 1, Len(text) - 1)) + DigitValue(text[Len(text)])

RECURSIVE Power(_, _)
Power(b, e) == IF e = 0 THEN 1 ELSE b * Power(b, e - 1)

\* The float that a text of digits with one point denotes
PyFloatOf(text) ==
    VFloat(PyInt(SubSeq(text, 1, DotAt(text) - 1) \o SubSeq(text, DotAt(text) + 1, Len(text))),
           Power(10, Len(text) - DotAt(text)))

\* The str that the body of a string literal denotes
RECURSIVE Unescape(_)
Unescape(s) ==
    CASE s = <<>> -> <<>>
      [] Len(s) >= 2 /\ s[1] = "\\" /\ s[2] = "n" -> <<"\n">> \o Unescape(SubSeq(s, 3, Len(s)))
      [] Len(s) >= 2 /\ s[1] = "\\" /\ s[2] = "t" -> <<"\t">> \o Unescape(SubSeq(s, 3, Len(s)))
      [] Len(s) >= 2 /\ s[1] = "\\" /\ s[2] = "r" -> <<"\r">> \o Unescape(SubSeq(s, 3, Len(s)))
      [] Len(s) >= 2 /\ s[1] = "\\" /\ s[2] \notin {"n", "t", "r"} ->
            <<s[2]>> \o Unescape(SubSeq(s, 3, Len(s)))
      [] OTHER -> <<s[1]>> \o Unescape(Tail(s))

\* The str that a string literal in quotes denotes
PyStrOf(text) == VStr(Unescape(SubSeq(text, 2, Len(text) - 1)))

RECURSIVE Repeat(_, _)
Repeat(s, n) == IF n <= 0 THEN <<>> ELSE s \o Repeat(s, n - 1)

\* s < t of two str
RECURSIVE StrLess(_, _)
StrLess(s, t) ==
    CASE t = <<>> -> FALSE
      [] s = <<>> /\ t # <<>> -> TRUE
      [] s # <<>> /\ t # <<>> /\ Head(s) # Head(t) -> CharCode(Head(s)) < CharCode(Head(t))
      [] OTHER -> StrLess(Tail(s), Tail(t))

\* ------------------------------------------------------------------------
\* The run of the generated program.  Its state is a record S:
\*   globals     : exec_globals, a function from names to values
\*   funcs       : the functions that def statements have made, by name
\*   runtime     : the fields of the CppRuntime instance
\*   stdout      : the texts written to sys.stdout, one for each print call
\*   in_function : whether a function's body runs; locals are its bound
\*                 local variables and local_names the names the compiler
\*                 has made local to it
\*   status      : "run", or "return" (a return statement has run), "raise"
\*                 (exc is the exception; val the code of a SystemExit), or
\*                 "bound" (more calls or iterations than MaxRunSteps)
\*   val, args   : the value of the last expression / argument list
\*   fuel        : the calls and loop iterations left
\* ------------------------------------------------------------------------
MaxRunSteps == 3

\* The places at which a run may find room for the objects that it creates
Addresses == {1, 2}

NewRun(heap) ==
    [heap |-> heap,
     globals |-> (S_name_ :> VStr(S_main_)),
     funcs |-> <<>>,
     runtime |-> [output_buffer |-> <<>>, return_value |-> VInt(0), return_called |-> FALSE],
     stdout |-> <<>>,
     in_function |-> FALSE, locals |-> <<>>, local_names |-> {},
     status |-> "run", exc |-> NONE, val |-> VNone, args |-> <<>>,
     fuel |-> MaxRunSteps]

\* What follows an evaluation or a statement: K runs in the state it left,
\* unless it has returned or raised
Go(S, K(_)) == IF S.status # "run" THEN S ELSE K(S)

Value(S, v) == [S EXCEPT !.val = v]
PyRaise(S, kind) == [S EXCEPT !.status = "raise", !.exc = kind]

\* raise SystemExit(code)
SystemExit(S, code) == [S EXCEPT !.status = "raise", !.exc = "SystemExit", !.val = code]

IsLocal(S, name) == S.in_function /\ name \in S.local_names

\* The value of a name: a local variable, a global, a builtin
Load(S, name) ==
    CASE name = S_True -> Value(S, VBool(TRUE))
      [] name = S_False -> Value(S, VBool(FALSE))
      [] name = S_None -> Value(S, VNone)
      [] name \notin {S_True, S_False, S_None} /\ IsLocal(S, name) ->
            IF name \in DOMAIN S.locals THEN Value(S, S.locals[name])
            ELSE PyRaise(S, "UnboundLocalError")
      [] name \notin {S_True, S_False, S_None} /\ ~IsLocal(S, name)
            /\ name \in DOMAIN S.globals -> Value(S, S.globals[name])
      [] name \notin {S_True, S_False, S_None} /\ ~IsLocal(S, name)
            /\ name \notin DOMAIN S.globals /\ name \in {S_print, S_str, S_isinstance} ->
            Value(S, VObj("builtin"))
      [] OTHER -> PyRaise(S, "NameError")

\* name = v
Store(S, name, v) ==
    IF S.in_function THEN [S EXCEPT !.locals = (name :> v) @@ @]
    ELSE [S EXCEPT !.globals = (name :> v) @@ @]

\* The names that the statements of a function's body bind
RECURSIVE AssignedNames(_)
AssignedNames(stmts) ==
    UNION {CASE stmts[i].k \in {"assign", "augassign"} -> {stmts[i].target.name}
             [] stmts[i].k \in {"if", "while"} ->
                   AssignedNames(stmts[i].body) \cup AssignedNames(stmts[i].orelse)
             [] OTHER -> {} : i \in 1..Len(stmts)}

\* l op r of two values, op an arithmetic operator or a comparison
Binary(S, op, l, r) ==
    CASE op = <<"+">> /\ IsNumber(l) /\ IsNumber(r) ->
            Value(S, Number(l, r, l.n * r.d + r.n * l.d, l.d * r.d))
      [] op = <<"+">> /\ l.t = "str" /\ r.t = "str" -> Value(S, VStr(l.s \o r.s))
      [] op = <<"-">> /\ IsNumber(l) /\ IsNumber(r) ->
            Value(S, Number(l, r, l.n * r.d - r.n * l.d, l.d * r.d))
      [] op = <<"*">> /\ IsNumber(l) /\ IsNumber(r) ->
            Value(S, Number(l, r, l.n * r.n, l.d * r.d))
      [] op = <<"*">> /\ l.t = "str" /\ IsIntLike(r) -> Value(S, VStr(Repeat(l.s, r.n)))
      [] op = <<"*">> /\ IsIntLike(l) /\ r.t = "str" -> Value(S, VStr(Repeat(r.s, l.n)))
      [] op = <<"/">> /\ IsNumber(l) /\ IsNumber(r) /\ r.n # 0 ->
            Value(S, Number(VFloat(0, 1), r, l.n * r.d, l.d * r.n))
      [] op = <<"%">> /\ IsNumber(l) /\ IsNumber(r) /\ r.n # 0 ->
            Value(S, Number(l, r, PyMod(l.n * r.d, r.n * l.d), l.d * r.d))
      [] op \in {<<"/">>, <<"%">>} /\ IsNumber(l) /\ IsNumber(r) /\ r.n = 0 ->
            PyRaise(S, "ZeroDivisionError")
      [] op = <<"=", "=">> -> Value(S, VBool(PyEquals(l, r)))
      [] op = <<"!", "=">> -> Value(S, VBool(~PyEquals(l, r)))
      [] op = <<"<">> /\ IsNumber(l) /\ IsNumber(r) -> Value(S, VBool(l.n * r.d < r.n * l.d))
      [] op = <<">">> /\ IsNumber(l) /\ IsNumber(r) -> Value(S, VBool(l.n * r.d > r.n * l.d))
      [] op = <<"<", "=">> /\ IsNumber(l) /\ IsNumber(r) ->
            Value(S, VBool(l.n * r.d <= r.n * l.d))
      [] op = <<">", "=">> /\ IsNumber(l) /\ IsNumber(r) ->
            Value(S, VBool(l.n * r.d >= r.n * l.d))
      [] op = <<"<">> /\ l.t = "str" /\ r.t = "str" -> Value(S, VBool(StrLess(l.s, r.s)))
      [] op = <<">">> /\ l.t = "str" /\ r.t = "str" -> Value(S, VBool(StrLess(r.s, l.s)))
      [] op = <<"<", "=">> /\ l.t = "str" /\ r.t = "str" ->
            Value(S, VBool(~StrLess(r.s, l.s)))
      [] op = <<">", "=">> /\ l.t = "str" /\ r.t = "str" ->
            Value(S, VBool(~StrLess(l.s, r.s)))
      [] OTHER -> PyRaise(S, "TypeError")

\* op v
Unary(S, op, v) ==
    CASE op = S_not_ -> Value(S, VBool(~Truthy(v)))
      [] op = <<"-">> /\ IsNumber(v) -> Value(S, Number(v, v, -v.n * v.d, v.d * v.d))
      [] op = <<"+">> /\ IsNumber(v) -> Value(S, Number(v, v, v.n * v.d, v.d * v.d))
      [] OTHER -> PyRaise(S, "TypeError")

RECURSIVE Eval(_, _)
RECURSIVE EvalArguments(_, _, _, _)
RECURSIVE EvalShifts(_, _, _)
RECURSIVE Invoke(_, _, _)
RECURSIVE Exec(_, _)
RECURSIVE ExecSuite(_, _, _)
RECURSIVE ExecWhile(_, _)

\* A call of the global or builtin that `name` is in the runtime support:
\* a function of the program that has taken the name is called in its place
CallGlobal(S, name, args, Builtin(_)) ==
    Go(Load([S EXCEPT !.in_function = FALSE], name), LAMBDA F :
        IF F.val = VObj("builtin") THEN Builtin([F EXCEPT !.in_function = S.in_function])
        ELSE Invoke([F EXCEPT !.in_function = S.in_function], F.val, args))

\* CppRuntime.cout_endl
cout_endl(S) ==
    [S EXCEPT !.runtime.output_buffer = Append(@, VStr(<<"\n">>)), !.val = TheRuntime]

\* value[1:-1] of cout_output, when value starts and ends with a double quote
Unquoted(value) ==
    IF value.t = "str" /\ value.s # <<>> /\ Head(value.s) = "\"" /\ value.s[Len(value.s)] = "\""
    THEN VStr(SubSeq(value.s, 2, Len(value.s) - 1)) ELSE value

\* self.output_buffer.append(str(value)); return self
AppendStr(S, value) ==
    Go(CallGlobal(S, S_str, <<value>>, LAMBDA B : Value(B, VStr(Str(B, value)))), LAMBDA T :
        [T EXCEPT !.runtime.output_buffer = Append(@, T.val), !.val = TheRuntime])

\* The global str, which is the second argument of isinstance in cout_output
GlobalStr(S) == Load([S EXCEPT !.in_function = FALSE], S_str).val

\* CppRuntime.cout_output
cout_output(S, value) ==
    Go(CallGlobal(S, S_isinstance, <<value, GlobalStr(S)>>, LAMBDA B :
           IF GlobalStr(S) = VObj("builtin") THEN Value(B, VBool(value.t = "str"))
           ELSE PyRaise(B, "TypeError")), LAMBDA I :
        IF Truthy(I.val) /\ value.t # "str" THEN PyRaise(I, "AttributeError")
        ELSE AppendStr(I, IF Truthy(I.val) THEN Unquoted(value) ELSE value))

\* CppRuntime.__lshift__
lshift(S, other) ==
    IF PyEquals(other, S.globals[S_endl]) THEN cout_endl(S)
    ELSE Go(CallGlobal(S, S_str, <<other>>, LAMBDA B : Value(B, VStr(Str(B, other)))), LAMBDA T :
             IF PyEquals(T.val, VStr(<<"\n">>)) THEN cout_endl(T) ELSE cout_output(T, other))

\* ''.join(parts)
RECURSIVE Join(_)
Join(parts) == IF parts = <<>> THEN <<>> ELSE Head(parts) \o Join(Tail(parts))

\* CppRuntime.get_output: ''.join(self.output_buffer), which takes a list of
\* str only
get_output(S) ==
    IF \A i \in 1..Len(S.runtime.output_buffer) : S.runtime.output_buffer[i].t = "str"
    THEN Value(S, VStr(Join([i \in 1..Len(S.runtime.output_buffer) |->
                                S.runtime.output_buffer[i].s])))
    ELSE PyRaise(S, "TypeError")

\* CppRuntime.set_return
set_return(S, value) ==
    [S EXCEPT !.runtime.return_value = value, !.runtime.return_called = TRUE]

\* The operands of the shifts that a text has outside of its parentheses
RECURSIVE Operands(_)
Operands(code) ==
    IF code.k = "shift" THEN Operands(code.left) \o Operands(code.right) ELSE <<code>>

ArithmeticOps == {<<"+">>, <<"-">>, <<"*">>, <<"/">>, <<"%">>}

\* The operands of the shifts that Python reads in "(left op right)", op
\* binding tighter than <<
Regrouped(code) ==
    SubSeq(Operands(code.left), 1, Len(Operands(code.left)) - 1)
        \o <<PyBin(Operands(code.left)[Len(Operands(code.left))], code.op,
                   Head(Operands(code.right)))>>
        \o Tail(Operands(code.right))

\* l << r
Shift(S, l, r) ==
    CASE l = TheRuntime -> lshift(S, r)
      [] IsIntLike(l) /\ IsIntLike(r) /\ r.n >= 0 -> Value(S, VInt(l.n * Power(2, r.n)))
      [] IsIntLike(l) /\ IsIntLike(r) /\ r.n < 0 -> PyRaise(S, "ValueError")
      [] OTHER -> PyRaise(S, "TypeError")

\* ops[1] << ops[2] << ... from the left, S.val being the value so far
EvalShifts(S, ops, i) ==
    CASE i > Len(ops) -> S
      [] i = 1 /\ i <= Len(ops) -> Go(Eval(S, ops[1]), LAMBDA A : EvalShifts(A, ops, 2))
      [] OTHER ->
            Go(Eval(S, ops[i]), LAMBDA R :
            Go(Shift(R, S.val, R.val), LAMBDA T : EvalShifts(T, ops, i + 1)))

\* The arguments of a call from the left; S.args is their values
EvalArguments(S, args, i, vals) ==
    IF i > Len(args) THEN [S EXCEPT !.args = vals]
    ELSE Go(Eval(S, args[i]), LAMBDA A : EvalArguments(A, args, i + 1, Append(vals, A.val)))

\* The value of an expression as Python reads its text
Eval(S, code) ==
    CASE code.k = "name" -> Load(S, code.name)
      [] code.k = "num" -> Value(S, VInt(PyInt(code.text)))
      [] code.k = "float" -> Value(S, PyFloatOf(code.text))
      [] code.k = "str" -> Value(S, PyStrOf(code.text))
      [] code.k = "shift" -> EvalShifts(S, Operands(code), 1)
      [] code.k = "bin" /\ code.op \in ArithmeticOps
            /\ "shift" \in {code.left.k, code.right.k} ->
            EvalShifts(S, Regrouped(code), 1)
      [] code.k = "bin" /\ code.op = S_and ->
            Go(Eval(S, code.left), LAMBDA L :
                IF Truthy(L.val) THEN Eval(L, code.right) ELSE L)
      [] code.k = "bin" /\ code.op = S_or ->
            Go(Eval(S, code.left), LAMBDA L :
                IF Truthy(L.val) THEN L ELSE Eval(L, code.right))
      [] code.k = "bin" /\ code.op \notin {S_and, S_or}
            /\ ~(code.op \in ArithmeticOps /\ "shift" \in {code.left.k, code.right.k}) ->
            Go(Eval(S, code.left), LAMBDA L :
            Go(Eval(L, code.right), LAMBDA R : Binary(R, code.op, L.val, R.val)))
      [] code.k = "unary" /\ code.op \in {<<"-">>, <<"+">>} /\ code.operand.k = "shift" ->
            EvalShifts(S, <<PyUnary(code.op, Head(Operands(code.operand)))>>
                              \o Tail(Operands(code.operand)), 1)
      [] code.k = "unary" /\ ~(code.op \in {<<"-">>, <<"+">>} /\ code.operand.k = "shift") ->
            Go(Eval(S, code.operand), LAMBDA O : Unary(O, code.op, O.val))
      [] code.k = "call" ->
            Go(Load(S, code.name), LAMBDA F :
            Go(EvalArguments(F, code.args, 1, <<>>), LAMBDA A : Invoke(A, F.val, A.args)))

\* The frame of a call of the function f with the arguments args
Entered(S, f, args) ==
    [S EXCEPT !.in_function = TRUE,
              !.locals = [n \in {f.params[i] : i \in 1..Len(f.params)} |->
                              args[CHOOSE i \in 1..Len(f.params) : f.params[i] = n]],
              !.local_names = f.local_names,
              !.fuel = @ - 1]

\* The caller S, the body of the function having ended in the state B: by a
\* return, at its end, or by an exception, which goes on in the caller
Left(S, B) ==
    [B EXCEPT !.status = IF @ = "return" THEN "run" ELSE @,
              !.val = CASE B.status = "return" -> B.val
                        [] B.status = "run" -> VNone
                        [] OTHER -> B.val,
              !.in_function = S.in_function,
              !.locals = S.locals,
              !.local_names = S.local_names]

\* f(*args)
Invoke(S, f, args) ==
    CASE f.t = "function" /\ Len(S.funcs[f.s].params) = Len(args) /\ S.fuel > 0 ->
            Left(S, ExecSuite(Entered(S, S.funcs[f.s], args), S.funcs[f.s].body, 1))
      [] f.t = "function" /\ Len(S.funcs[f.s].params) = Len(args) /\ S.fuel = 0 ->
            [S EXCEPT !.status = "bound"]
      [] OTHER -> PyRaise(S, "TypeError")

\* print(text, end=''), text being what the caller adds end to
PyPrint(S, text, keywords) ==
    Go(Load(S, S_print), LAMBDA P :
        CASE P.val = VObj("builtin") -> [P EXCEPT !.stdout = Append(@, text)]
          [] P.val # VObj("builtin") /\ keywords -> PyRaise(P, "TypeError")
          [] OTHER -> Invoke(P, P.val, <<VStr(text)>>))

\* The object whose attribute a statement of the generator reads: the value
\* of `name`, which has to be the object `expected`
Attribute(S, name, expected) ==
    Go(Load(S, name), LAMBDA O :
        IF O.val = expected THEN O ELSE PyRaise(O, "AttributeError"))

\* <name>.__lshift__(<value>) with the object o that <name> is
LshiftCall(S, o, value) ==
    CASE o = TheRuntime -> Go(Eval(S, value), LAMBDA A : lshift(A, A.val))
      [] o # TheRuntime /\ IsIntLike(o) ->
            Go(Eval(S, value), LAMBDA A :
                IF IsIntLike(A.val) /\ A.val.n < 0 THEN PyRaise(A, "ValueError") ELSE A)
      [] OTHER -> PyRaise(S, "AttributeError")

\* One statement
Exec(S, st) ==
    CASE st.k = "assign" -> Go(Eval(S, st.value), LAMBDA E : Store(E, st.target.name, E.val))
      [] st.k = "augassign" ->
            Go(Load(S, st.target.name), LAMBDA T :
            Go(Binary(T, <<Head(st.name)>>, T.val, VInt(1)), LAMBDA R :
                Store(R, st.target.name, R.val)))
      [] st.k = "expr" -> Eval(S, st.value)
      [] st.k = "if" ->
            Go(Eval(S, st.value), LAMBDA C :
                ExecSuite(C, IF Truthy(C.val) THEN st.body ELSE st.orelse, 1))
      [] st.k = "while" -> ExecWhile(S, st)
      [] st.k = "return" -> Go(Eval(S, st.value), LAMBDA E : [E EXCEPT !.status = "return"])
      [] st.k = "set_return" ->
            Go(Attribute(S, S_cpp_runtime, TheRuntime), LAMBDA R :
            Go(Eval(R, st.value), LAMBDA E : set_return(E, E.val)))
      [] st.k = "sys_exit" ->
            Go(Attribute(S, S_sys, VObj("sys")), LAMBDA M :
            Go(Eval(M, st.value), LAMBDA E : SystemExit(E, E.val)))
      [] st.k = "lshift" /\ st.name = S_cout ->
            Go(Load(S, S_cout), LAMBDA O : LshiftCall(O, O.val, st.value))
      [] st.k = "lshift" /\ st.name # S_cout ->
            Go(Attribute(S, S_std, VObj("std")), LAMBDA O :
                LshiftCall(O, TheRuntime, st.value))
      [] st.k = "print_output" ->
            Go(Load(S, S_print), LAMBDA P :
            Go(Attribute(P, S_cpp_runtime, TheRuntime), LAMBDA R :
            Go(get_output(R), LAMBDA T : PyPrint(T, T.val.s, TRUE))))
      [] st.k = "print_no_main" -> PyPrint(S, S_no_main_found \o <<"\n">>, FALSE)
      [] st.k = "exit_with_code" ->
            Go(Attribute(S, S_sys, VObj("sys")), LAMBDA M :
            Go(Load(M, S_exit_code), LAMBDA C :
                SystemExit(C, IF C.val = VNone THEN VInt(0) ELSE C.val)))
      [] st.k = "exit_with_return_value" ->
            Go(Attribute(S, S_sys, VObj("sys")), LAMBDA M :
            Go(Attribute(M, S_cpp_runtime, TheRuntime), LAMBDA R :
                SystemExit(R, R.runtime.return_value)))
      [] st.k = "import" ->
            Store(S, st.name, VObj(IF st.name = S_sys THEN "sys" ELSE "math"))
      [] st.k = "runtime_support" ->
            [S EXCEPT !.globals =
                (S_CppRuntime :> VObj("CppRuntime")) @@ (S_cpp_runtime :> TheRuntime)
                @@ (S_cout :> TheRuntime) @@ (S_endl :> VStr(<<"\n">>))
                @@ (S_StdNamespace :> VObj("StdNamespace")) @@ (S_std :> VObj("std"))
                @@ (S_lshift_ :> VObj("__lshift__")) @@ (S_cout_print :> VObj("cout_print"))
                @@ @]
      [] st.k = "def" ->
            [Store(S, st.name, VFunc(st.name)) EXCEPT
                !.funcs = (st.name :> [params |-> st.value, body |-> st.body,
                                       local_names |->
                                           {st.value[i] : i \in 1..Len(st.value)}
                                               \cup AssignedNames(st.body)]) @@ @]

\* The statements of a suite from the i-th on
ExecSuite(S, stmts, i) ==
    IF i > Len(stmts) THEN S
    ELSE Go(Exec(S, stmts[i]), LAMBDA T : ExecSuite(T, stmts, i + 1))

\* while <value>: <body>
ExecWhile(S, st) ==
    Go(Eval(S, st.value), LAMBDA C :
        CASE ~Truthy(C.val) -> C
          [] Truthy(C.val) /\ C.fuel = 0 -> [C EXCEPT !.status = "bound"]
          [] OTHER ->
                Go(ExecSuite([C EXCEPT !.fuel = @ - 1], st.body, 1), LAMBDA B :
                    ExecWhile(B, st)))

\* The module's statements run one at a time.  c = [run, pending, handler]:
\* pending are the statements still to run; inside the try statement the
\* handler is its except-suite, and TryEnd marks where its body ends.
TryEnd == PyNode(Line("try_end", <<>>, PyNothing, PyNothing), <<>>, <<>>)

Config(S, stmts, except_suite) == [run |-> S, pending |-> stmts, handler |-> except_suite]

RECURSIVE AfterTryEnd(_)
AfterTryEnd(stmts) ==
    CASE stmts = <<>> -> <<>>
      [] stmts # <<>> /\ Head(stmts).k = "try_end" -> Tail(stmts)
      [] OTHER -> AfterTryEnd(Tail(stmts))

\* The configuration after a statement has left the run in the state S
Outcome(c, S) ==
    CASE S.status = "run" -> Config(S, Tail(c.pending), c.handler)
      [] S.status = "raise" /\ S.exc = "SystemExit" /\ c.handler # <<>> ->
            Config([S EXCEPT !.status = "run", !.exc = NONE],
                   c.handler \o AfterTryEnd(c.pending), <<>>)
      [] OTHER -> Config(S, <<>>, <<>>)

\* The statement st, the first of c.pending, runs at the module's level
ExecModuleStatement(c, st) ==
    CASE st.k = "main_guard" ->
            Config(c.run,
                   (IF PyEquals(Load(c.run, S_name_).val, VStr(S_main_)) THEN st.body
                    ELSE <<>>) \o Tail(c.pending),
                   c.handler)
      [] st.k = "try" -> Config(c.run, st.body \o <<TryEnd>> \o Tail(c.pending), st.orelse)
      [] st.k = "try_end" -> Config(c.run, Tail(c.pending), <<>>)
      [] OTHER -> Outcome(c, Exec(c.run, st))

\* ------------------------------------------------------------------------
\* compile_source_api  (main.py; server.py's _compile_source_api is the same)
\* ------------------------------------------------------------------------
\* return 3;
Run_Return3 ==
    <<"r","e","t","u","r","n"," ","3",";">>

\* cout<<"hi";
Run_CoutHi ==
    <<"c","o","u","t","<","<","\"","h","i","\"",";">>

\* int x=2;
Run_DeclareX ==
    <<"i","n","t"," ","x","=","2",";">>

\* if(1){return 5;}
Run_IfReturn ==
    <<"i","f","(","1",")","{","r","e","t","u","r","n"," ","5",";","}">>

\* while(1){return 6;}
Run_WhileReturn ==
    <<"w","h","i","l","e","(","1",")","{","r","e","t","u","r","n"," ","6",";","}">>

\* for(;;){return 7;}
Run_ForReturn ==
    <<"f","o","r","(",";",";",")","{","r","e","t","u","r","n"," ","7",";","}">>

\* int sys=0;
Run_DeclareSys ==
    <<"i","n","t"," ","s","y","s","=","0",";">>

\* if(0){}
Run_EmptyIf ==
    <<"i","f","(","0",")","{","}">>

\* return x;
Run_ReturnX ==
    <<"r","e","t","u","r","n"," ","x",";">>

\* cout<<x<<endl;
Run_CoutXEndl ==
    <<"c","o","u","t","<","<","x","<","<","e","n","d","l",";">>

\* return;
Run_ReturnNothing ==
    <<"r","e","t","u","r","n",";">>

\* while(x){x=x+1;}
Run_Loop ==
    <<"w","h","i","l","e","(","x",")","{","x","=","x","+","1",";","}">>

\* return f(4);
Run_ReturnCall ==
    <<"r","e","t","u","r","n"," ","f","(","4",")",";">>

\* int f(int a){return a;}int main(){
Head_FIntMain ==
    <<"i","n","t"," ","f","(","i","n","t"," ","a",")","{","r","e","t","u","r","n"," ",
      "a",";","}","i","n","t"," ","m","a","i","n","(",")","{">>

\* void main(){
Head_VoidMain ==
    <<"v","o","i","d"," ","m","a","i","n","(",")","{">>

\* the empty source
Src_Empty ==
    <<>>

\* int f(){return 1;}
Src_NoMain ==
    <<"i","n","t"," ","f","(",")","{","r","e","t","u","r","n"," ","1",";","}">>

\* int main({
Src_SyntaxError ==
    <<"i","n","t"," ","m","a","i","n","(","{">>

\* int main(){return 1.2.3;}
Src_BadFloat ==
    <<"i","n","t"," ","m","a","i","n","(",")","{","r","e","t","u","r","n"," ","1",".",
      "2",".","3",";","}">>

\* int __name__(){return 0;}int main(){return 3;}
Src_GuardName ==
    <<"i","n","t"," ","_","_","n","a","m","e","_","_","(",")","{","r","e","t","u","r",
      "n"," ","0",";","}","i","n","t"," ","m","a","i","n","(",")","{","r","e","t","u",
      "r","n"," ","3",";","}">>

\* int print(int a){return a;}
Src_PrintTaken ==
    <<"i","n","t"," ","p","r","i","n","t","(","i","n","t"," ","a",")","{","r","e","t",
      "u","r","n"," ","a",";","}">>

\* int str(int a){return a;}int main(){cout<<1;return 0;}
Src_StrTaken ==
    <<"i","n","t"," ","s","t","r","(","i","n","t"," ","a",")","{","r","e","t","u","r",
      "n"," ","a",";","}","i","n","t"," ","m","a","i","n","(",")","{","c","o","u","t",
      "<","<","1",";","r","e","t","u","r","n"," ","0",";","}">>

\* int main(){return -2;}
Src_Negative ==
    <<"i","n","t"," ","m","a","i","n","(",")","{","r","e","t","u","r","n"," ","-","2",
      ";","}">>

\* int main(){int y=7;float z=y/2;cout<<z<<y%3<<"a\n";if(y>3&&!false){y++;}else{y--;}int i=0;while(i<2){i++;cout<<i*1.5<<endl;}return y*2-1;}
Src_Arithmetic ==
    <<"i","n","t"," ","m","a","i","n","(",")","{","i","n","t"," ","y","=","7",";","f",
      "l","o","a","t"," ","z","=","y","/","2",";","c","o","u","t","<","<","z","<","<",
      "y","%","3","<","<","\"","a","\\","n","\"",";","i","f","(","y",">","3","&","&","!",
      "f","a","l","s","e",")","{","y","+","+",";","}","e","l","s","e","{","y","-","-",
      ";","}","i","n","t"," ","i","=","0",";","w","h","i","l","e","(","i","<","2",")",
      "{","i","+","+",";","c","o","u","t","<","<","i","*","1",".","5","<","<","e","n",
      "d","l",";","}","r","e","t","u","r","n"," ","y","*","2","-","1",";","}">>

\* int x=1;int main(){return x;}
Src_GlobalRead ==
    <<"i","n","t"," ","x","=","1",";","i","n","t"," ","m","a","i","n","(",")","{","r",
      "e","t","u","r","n"," ","x",";","}">>

\* int main(){cout<<"a";return 1/0;}
Src_ErrorAfterOutput ==
    <<"i","n","t"," ","m","a","i","n","(",")","{","c","o","u","t","<","<","\"","a","\"",
      ";","r","e","t","u","r","n"," ","1","/","0",";","}">>

\* int main(){int x=2;cout<<++x;return x;}
Src_PreIncrement ==
    <<"i","n","t"," ","m","a","i","n","(",")","{","i","n","t"," ","x","=","2",";","c",
      "o","u","t","<","<","+","+","x",";","r","e","t","u","r","n"," ","x",";","}">>

\* int main(){int x=2;cout<<--x;return x;}
Src_PreDecrement ==
    <<"i","n","t"," ","m","a","i","n","(",")","{","i","n","t"," ","x","=","2",";","c",
      "o","u","t","<","<","-","-","x",";","r","e","t","u","r","n"," ","x",";","}">>

\* int main(){int x=2;cout<<x++;return x;}
Src_PostIncrement ==
    <<"i","n","t"," ","m","a","i","n","(",")","{","i","n","t"," ","x","=","2",";","c",
      "o","u","t","<","<","x","+","+",";","r","e","t","u","r","n"," ","x",";","}">>

\* int main(){int x=2;cout<<x--;return x;}
Src_PostDecrement ==
    <<"i","n","t"," ","m","a","i","n","(",")","{","i","n","t"," ","x","=","2",";","c",
      "o","u","t","<","<","x","-","-",";","r","e","t","u","r","n"," ","x",";","}">>

\* int main(){cout<<"\n";return 0;}
Src_StreamNewline ==
    <<"i","n","t"," ","m","a","i","n","(",")","{","c","o","u","t","<","<","\"","\\","n",
      "\"",";","r","e","t","u","r","n"," ","0",";","}">>

\* int main(){cout<<endl;return 0;}
Src_StreamEndl ==
    <<"i","n","t"," ","m","a","i","n","(",")","{","c","o","u","t","<","<","e","n","d",
      "l",";","r","e","t","u","r","n"," ","0",";","}">>

\* int main(){cout<<"a";return 0;}
Src_StreamText ==
    <<"i","n","t"," ","m","a","i","n","(",")","{","c","o","u","t","<","<","\"","a","\"",
      ";","r","e","t","u","r","n"," ","0",";","}">>

\* int main(){return g();}int g(){return 3;}
Src_ForwardCall ==
    <<"i","n","t"," ","m","a","i","n","(",")","{","r","e","t","u","r","n"," ","g","(",
      ")",";","}","i","n","t"," ","g","(",")","{","r","e","t","u","r","n"," ","3",";",
      "}">>

\* int g(){cout<<"g";return 3;}int main(){return g();}
Src_ReturnCallWrites ==
    <<"i","n","t"," ","g","(",")","{","c","o","u","t","<","<","\"","g","\"",";","r","e",
      "t","u","r","n"," ","3",";","}","i","n","t"," ","m","a","i","n","(",")","{","r",
      "e","t","u","r","n"," ","g","(",")",";","}">>

\* int main(){int i=0;int n=0;while(i++<1){n=n+1;if(n>1){return 7;}}return n;}
Src_WhilePostfixCondition ==
    <<"i","n","t"," ","m","a","i","n","(",")","{","i","n","t"," ","i","=","0",";","i",
      "n","t"," ","n","=","0",";","w","h","i","l","e","(","i","+","+","<","1",")","{",
      "n","=","n","+","1",";","i","f","(","n",">","1",")","{","r","e","t","u","r","n",
      " ","7",";","}","}","r","e","t","u","r","n"," ","n",";","}">>

\* int main(){int i=5;for(int i=0;i<0;i=i+1){cout<<i;}return i;}
Src_ForShadows ==
    <<"i","n","t"," ","m","a","i","n","(",")","{","i","n","t"," ","i","=","5",";","f",
      "o","r","(","i","n","t"," ","i","=","0",";","i","<","0",";","i","=","i","+","1",
      ")","{","c","o","u","t","<","<","i",";","}","r","e","t","u","r","n"," ","i",";",
      "}">>

\* int main(){std::cout<<1<<std::endl;return 0;}
Src_StdCoutStdEndl ==
    <<"i","n","t"," ","m","a","i","n","(",")","{","s","t","d",":",":","c","o","u","t",
      "<","<","1","<","<","s","t","d",":",":","e","n","d","l",";","r","e","t","u","r",
      "n"," ","0",";","}">>

\* int main(){cout<<1<<endl;return 0;}
Src_CoutEndl ==
    <<"i","n","t"," ","m","a","i","n","(",")","{","c","o","u","t","<","<","1","<","<",
      "e","n","d","l",";","r","e","t","u","r","n"," ","0",";","}">>

RunPool ==
    {Run_Return3, Run_CoutHi, Run_DeclareX, Run_IfReturn, Run_WhileReturn,
     Run_ForReturn, Run_DeclareSys, Run_EmptyIf, Run_ReturnX, Run_CoutXEndl,
     Run_ReturnNothing, Run_Loop, Run_ReturnCall}

RECURSIVE RunBodiesOf(_)
\* The function bodies of exactly n statements of the pool
RunBodiesOf(n) ==
    IF n = 0 THEN {<<>>} ELSE {b \o st : b \in RunBodiesOf(n - 1), st \in RunPool}

\* A main function of up to MaxBodyStmts statements, and sources for what
\* such a program cannot hold
\* int main(){cout<<
Head_Stream ==
    <<"i","n","t"," ","m","a","i","n","(",")","{","c","o","u","t","<","<">>

\* The operands of the divisions int main(){cout<< a / b ;return 0;}
Dividends == {0, 6, 7}
Divisors == {1, 2, 4}

DivisionSource(a, b) ==
    Head_Stream \o NatStr(a) \o <<"/">> \o NatStr(b) \o <<";","r","e","t","u","r","n"," ","0",";","}">>

DivisionSources == {DivisionSource(a, b) : a \in Dividends, b \in Divisors}

PipelineSources ==
    {head \o body \o <<"}">> : head \in {Head_FIntMain, Head_VoidMain},
                             body \in UNION {RunBodiesOf(n) : n \in 0..MaxBodyStmts}}
    \cup {Src_Empty, Src_NoMain, Src_SyntaxError, Src_BadFloat, Src_GuardName,
          Src_PrintTaken, Src_StrTaken, Src_Negative, Src_Arithmetic,
          Src_DuplicateParameter, Src_Hello, Src_GlobalRead, Src_ErrorAfterOutput,
          Src_PreIncrement, Src_PreDecrement, Src_PostIncrement, Src_PostDecrement,
          Src_StreamNewline, Src_StreamEndl, Src_StreamText,
          Src_ForwardCall,
          Src_ReturnCallWrites,
          Src_WhilePostfixCondition,
          Src_ForShadows,
          Src_StdCoutStdEndl,
          Src_CoutEndl}
    \cup DivisionSources

PipelineInit == LexInitOn(PipelineSources)

\* A pipeline that goes on to code generation whatever analyze has returned
semantic_analysis_ignored(analyze_result) == FALSE

\* `if not analyzer.analyze(ast):`
semantic_analysis_failed(analyze_result) == ~analyze_result

\* The dict that compile_source_api returns
ApiResult(success, message, output) ==
    [returned |-> TRUE, success |-> success, error |-> message,
     execution_output |-> output]

\* generator = CodeGenerator(analyzer); generated_code = generator.generate(ast)
Generate ==
    /\ semPc = "returned"
    /\ ~semantic_analysis_failed(analyzeResult)
    /\ genPc = "idle"
    /\ generated_code' = generate(ast)
    /\ genPc' = "generated"
    /\ UNCHANGED <<lexVars, parseVars, semVars, runVars, result, srvVars, previous, typeVars>>

\* exec(generated_code, exec_globals) begins: the code is compiled, which
\* may raise a SyntaxError
ExecBegin ==
    /\ genPc = "generated"
    /\ runPc = "idle"
    /\ \E m \in {PyCompile(generated_code)}, heap \in Addresses :
           IF m.err # NONE
           THEN /\ run' = PyRaise(NewRun(heap), m.err)
                /\ pending' = <<>>
                /\ runPc' = "raised"
           ELSE /\ run' = NewRun(heap)
                /\ pending' = m.node
                /\ runPc' = "running"
    /\ handler' = <<>>
    /\ UNCHANGED <<lexVars, parseVars, semVars, genVars, result, srvVars, previous, typeVars>>

\* The next statement of the module runs
ExecStatement ==
    /\ runPc = "running"
    /\ pending # <<>>
    /\ \E c \in {ExecModuleStatement(Config(run, pending, handler), Head(pending))} :
           /\ run' = c.run
           /\ pending' = c.pending
           /\ handler' = c.handler
           /\ runPc' = CASE c.run.status = "run" -> "running"
                         [] c.run.status = "raise" /\ c.run.exc = "SystemExit" -> "exited"
                         [] c.run.status = "raise" /\ c.run.exc # "SystemExit" -> "raised"
                         [] OTHER -> "bound"
    /\ UNCHANGED <<lexVars, parseVars, semVars, genVars, result, srvVars, previous, typeVars>>

\* exec returns: the module has run to its end
ExecFinish ==
    /\ runPc = "running"
    /\ pending = <<>>
    /\ runPc' = "finished"
    /\ UNCHANGED <<lexVars, parseVars, semVars, genVars, run, pending, handler, result, srvVars, previous, typeVars>>

\* `except SyntaxError as e:`
ApiSyntaxError ==
    /\ ~result.returned
    /\ parsePc = "raised"
    /\ parseError = "SyntaxError"
    /\ result' = ApiResult(FALSE, "Syntax Error", <<>>)
    /\ UNCHANGED <<lexVars, parseVars, semVars, genVars, runVars, srvVars, previous, typeVars>>

\* `except Exception as e:`, for what the parser or the analyzer has raised
ApiCompilationError ==
    /\ ~result.returned
    /\ \/ parsePc = "raised" /\ parseError # "SyntaxError"
       \/ semPc = "raised"
    /\ result' = ApiResult(FALSE, "Compilation Error", <<>>)
    /\ UNCHANGED <<lexVars, parseVars, semVars, genVars, runVars, srvVars, previous, typeVars>>

\* `if not analyzer.analyze(ast): return {...}`
ApiSemanticFailure ==
    /\ ~result.returned
    /\ semPc = "returned"
    /\ semantic_analysis_failed(analyzeResult)
    /\ result' = ApiResult(FALSE, "Semantic Analysis Failed", <<>>)
    /\ UNCHANGED <<lexVars, parseVars, semVars, genVars, runVars, srvVars, previous, typeVars>>

\* `except Exception as exec_error:` around exec
ApiRuntimeError ==
    /\ ~result.returned
    /\ runPc = "raised"
    /\ result' = ApiResult(FALSE, "Runtime Error", Join(run.stdout))
    /\ UNCHANGED <<lexVars, parseVars, semVars, genVars, runVars, srvVars, previous, typeVars>>

\* `except SystemExit: pass`, or exec has returned; then the success dict
ApiSuccess ==
    /\ ~result.returned
    /\ runPc \in {"exited", "finished"}
    /\ result' = ApiResult(TRUE, NONE, Join(run.stdout))
    /\ UNCHANGED <<lexVars, parseVars, semVars, genVars, runVars, srvVars, previous, typeVars>>

ApiNext ==
    \/ Generate \/ ExecBegin \/ ExecStatement \/ ExecFinish
    \/ ApiSyntaxError \/ ApiCompilationError \/ ApiSemanticFailure
    \/ ApiRuntimeError \/ ApiSuccess

Spec == PipelineInit /\ [][LexNext \/ ParseNext \/ SemNext \/ ApiNext]_vars

\* The exit code that CodeGenerator.execute returns for the run
ExitCode ==
    CASE runPc = "exited" -> IF run.val = VNone THEN VInt(0) ELSE run.val
      [] runPc = "raised" -> VInt(1)
      [] runPc = "finished" -> VInt(0)

\* ------------------------------------------------------------------------
\* Programs of one cout chain
\* ------------------------------------------------------------------------
\* int g(){cout<<"g";return 1;}int main(){int x=2;cout
Head_Chain ==
    <<"i","n","t"," ","g","(",")","{","c","o","u","t","<","<","\"","g","\"",";","r","e",
      "t","u","r","n"," ","1",";","}","i","n","t"," ","m","a","i","n","(",")","{","i",
      "n","t"," ","x","=","2",";","c","o","u","t">>

\* <<"a"
Op_String ==
    <<"<","<","\"","a","\"">>

\* <<x
Op_X ==
    <<"<","<","x">>

\* <<x++
Op_XPostIncrement ==
    <<"<","<","x","+","+">>

\* <<endl
Op_Endl ==
    <<"<","<","e","n","d","l">>

\* <<g()
Op_CallG ==
    <<"<","<","g","(",")">>

\* <<(x=5)
Op_AssignX ==
    <<"<","<","(","x","=","5",")">>

\* <<7
Op_Seven ==
    <<"<","<","7">>

\* Operands of a chain
MaxChainLen == 3

OperandPool ==
    {Op_String, Op_X, Op_XPostIncrement, Op_Endl, Op_CallG, Op_AssignX, Op_Seven}

RECURSIVE ChainsOf(_)
\* The chains of exactly n operands of the pool
ChainsOf(n) ==
    IF n = 0 THEN {<<>>} ELSE {c \o op : c \in ChainsOf(n - 1), op \in OperandPool}

\* int main() { int x=2; cout << ... ; } with one to MaxChainLen operands,
\* and sources that end in each of the other ways
ChainSources ==
    {Head_Chain \o c \o <<";", "}">> : c \in UNION {ChainsOf(n) : n \in 1..MaxChainLen}}
    \cup {Src_SyntaxError, Src_BadFloat, Src_GuardName, Src_GlobalRead, Src_Calls}

ChainInit == LexInitOn(ChainSources)

SpecChain == ChainInit /\ [][LexNext \/ ParseNext \/ SemNext \/ ApiNext]_vars

\* ------------------------------------------------------------------------
\* compile_source_api called again on the source of the call that has
\* returned: a new Lexer, Parser, SemanticAnalyzer and CodeGenerator are
\* constructed and exec gets a new dict of globals, so that every variable
\* of the pipeline is what it is at the start of a call
\* ------------------------------------------------------------------------
MaxCalls == 2

\* int main(){cout<<main;return 0;}
Src_PrintsFunction ==
    <<"i","n","t"," ","m","a","i","n","(",")","{","c","o","u","t","<","<","m","a","i",
      "n",";","r","e","t","u","r","n"," ","0",";","}">>

RepeatSources ==
    {Src_PrintsFunction, Src_Hello, Src_ErrorAfterOutput, Src_SyntaxError, Src_BadFloat,
     Src_GuardName, Src_GlobalRead, Src_Calls, Src_DuplicateParameter}

\* The exit code of the call that has returned, None if nothing has run
ReturnedExitCode == IF runPc \in {"exited", "raised", "finished"} THEN ExitCode ELSE VNone

CallAgain ==
    /\ result.returned
    /\ Len(previous) < MaxCalls - 1
    /\ previous' = Append(previous, [result |-> result, exit_code |-> ReturnedExitCode])
    /\ position' = 0
    /\ tokens' = <<>>
    /\ lexPc' = "scan"
    /\ lexIters' = 0
    /\ current' = 0
    /\ declarations' = <<>>
    /\ parsePc' = "idle"
    /\ parseError' = NONE
    /\ parseIters' = 0
    /\ ast' = [node |-> "None"]
    /\ analyzer' = [node |-> "None"]
    /\ semPc' = "idle"
    /\ declIndex' = 0
    /\ analyzeResult' = FALSE
    /\ generated_code' = <<>>
    /\ genPc' = "idle"
    /\ run' = [status |-> "idle"]
    /\ pending' = <<>>
    /\ handler' = <<>>
    /\ runPc' = "idle"
    /\ result' = NoResult
    /\ UNCHANGED <<source_code, srvVars, typeVars>>

RepeatInit == LexInitOn(RepeatSources)

SpecRepeat == RepeatInit /\ [][LexNext \/ ParseNext \/ SemNext \/ ApiNext \/ CallAgain]_vars

\* ------------------------------------------------------------------------
\* The server: _compile_source_api on the threads of app.run(threaded=True)
\*
\* Each thread handles one request.  What the five phases of a request do
\* to the streams is taken as the request's input: whether it is verbose,
\* how the call ends (outcome), and how many times the executed program
\* calls print.  The program of thread 1 prints "a" and that of thread 2
\* "b", so that the origin of every character of a stream is known.  print
\* writes to the stream that sys.stdout is at the moment of the call, and
\* redirect_stdout saves and replaces sys.stdout on entry and puts the saved
\* stream back on exit; one step of a thread is one such operation.
\* ------------------------------------------------------------------------
MaxPrints == 2

\* What the program of the request on thread t prints with one call of print
OwnText(t) == IF t = 1 THEN "a" ELSE "b"

\* What the verbose messages of a call write
PhaseText == "P"

Requests ==
    {[verbose |-> v, outcome |-> o, prints |-> 0] :
        v \in BOOLEAN, o \in {"syntax_error", "semantic_failed"}}
    \cup {[verbose |-> v, outcome |-> o, prints |-> n] :
        v \in BOOLEAN, o \in {"runtime_error", "success"}, n \in 0..MaxPrints}

\* print(text), whatever sys.stdout is
Written(text) == [streams EXCEPT ![sys_stdout] = Append(@, text)]

\* StringIO.getvalue
getvalue(stream) == streams[stream]

\* redirect_stdout.__enter__: the stream that sys.stdout was is kept, and
\* new_target becomes sys.stdout
Redirected(t, new_target, pc) ==
    /\ calls' = [calls EXCEPT ![t].old_targets = Append(@, sys_stdout), ![t].pc = pc]
    /\ sys_stdout' = new_target

\* redirect_stdout.__exit__: the stream kept on entry becomes sys.stdout
Restored(t, pc) ==
    /\ sys_stdout' = calls[t].old_targets[Len(calls[t].old_targets)]
    /\ calls' = [calls EXCEPT ![t].old_targets = SubSeq(@, 1, Len(@) - 1), ![t].pc = pc]

ServerResult(success, message, output) == ApiResult(success, message, output)

\* compile_code calls _compile_source_api with the request's code
Receive(t) ==
    /\ calls[t].pc = "idle"
    /\ \E request \in Requests :
        calls' = [calls EXCEPT ![t].pc = "enter_stdout_buffer", ![t].request = request]
    /\ UNCHANGED <<sys_stdout, streams>>

\* `with redirect_stdout(stdout_buffer), ...:`
EnterStdoutBuffer(t) ==
    /\ calls[t].pc = "enter_stdout_buffer"
    /\ Redirected(t, Buffer(t, "stdout_buffer"), "phases")
    /\ UNCHANGED streams

\* Phases 1 to 4: the messages of a verbose call are printed; the parser
\* raises SyntaxError, or analyze returns False and the dict of the failure
\* is made, or the code is generated
Phases(t) ==
    /\ calls[t].pc = "phases"
    /\ streams' = IF calls[t].request.verbose THEN Written(PhaseText) ELSE streams
    /\ calls' = [calls EXCEPT
            ![t].pc = IF calls[t].request.outcome \in {"syntax_error", "semantic_failed"}
                      THEN "exit_stdout_buffer" ELSE "enter_execution_output",
            ![t].result = IF calls[t].request.outcome = "semantic_failed"
                          THEN ServerResult(FALSE, "Semantic Analysis Failed", <<>>)
                          ELSE @]
    /\ UNCHANGED sys_stdout

\* `with redirect_stdout(execution_output):`
EnterExecutionOutput(t) ==
    /\ calls[t].pc = "enter_execution_output"
    /\ Redirected(t, Buffer(t, "execution_output"), "exec")
    /\ UNCHANGED streams

\* A call of print in the program that exec runs
ExecPrint(t) ==
    /\ calls[t].pc = "exec"
    /\ calls[t].printed < calls[t].request.prints
    /\ streams' = Written(OwnText(t))
    /\ calls' = [calls EXCEPT ![t].printed = @ + 1]
    /\ UNCHANGED sys_stdout

\* exec is left, by SystemExit, by another exception or by its return, and
\* with it the inner with statement
ExitExecutionOutput(t) ==
    /\ calls[t].pc = "exec"
    /\ calls[t].printed = calls[t].request.prints
    /\ Restored(t, IF calls[t].request.outcome = "runtime_error"
                   THEN "runtime_error" ELSE "exit_stdout_buffer")
    /\ UNCHANGED streams

\* `except Exception as exec_error: return {...}`: the dict is made inside
\* the outer with statement
RuntimeErrorDict(t) ==
    /\ calls[t].pc = "runtime_error"
    /\ calls' = [calls EXCEPT
            ![t].pc = "exit_stdout_buffer",
            ![t].result = ServerResult(FALSE, "Runtime Error",
                                       getvalue(Buffer(t, "execution_output")))]
    /\ UNCHANGED <<sys_stdout, streams>>

\* The outer with statement is left; a call whose dict has been made returns
ExitStdoutBuffer(t) ==
    /\ calls[t].pc = "exit_stdout_buffer"
    /\ Restored(t, IF calls[t].result.returned THEN "returned" ELSE "return")
    /\ UNCHANGED streams

\* `except SyntaxError as e: return {...}`, or the dict of a success
Return(t) ==
    /\ calls[t].pc = "return"
    /\ calls' = [calls EXCEPT
            ![t].pc = "returned",
            ![t].result = IF calls[t].request.outcome = "syntax_error"
                          THEN ServerResult(FALSE, "Syntax Error", <<>>)
                          ELSE ServerResult(TRUE, NONE,
                                            getvalue(Buffer(t, "execution_output")))]
    /\ UNCHANGED <<sys_stdout, streams>>

ServerStep(t) ==
    \/ Receive(t) \/ EnterStdoutBuffer(t) \/ Phases(t) \/ EnterExecutionOutput(t)
    \/ ExecPrint(t) \/ ExitExecutionOutput(t) \/ RuntimeErrorDict(t)
    \/ ExitStdoutBuffer(t) \/ Return(t)

ServerNext ==
    /\ \E t \in Threads : ServerStep(t)
    /\ UNCHANGED <<lexVars, parseVars, semVars, backVars, previous, typeVars>>

\* The server has started; the pipeline of a call is not followed here
ServerInit == LexInitOn({Src_Empty})

SpecServer == ServerInit /\ [][ServerNext]_vars

\* ------------------------------------------------------------------------
\* get_type_compatibility, called on a pair of types and then on the pair
\* the other way round
\* ------------------------------------------------------------------------
\* The names of types that the analyzer gives to expressions
BaseTypes ==
    {S_int, S_float, S_double, S_char, S_bool, S_void, S_string, S_ostream, S_unknown}

GetTypeCompatibility ==
    /\ Len(compatible) = 0
    /\ compatible' = <<get_type_compatibility(first_type, second_type)>>
    /\ UNCHANGED <<lexVars, parseVars, semVars, backVars, srvVars, previous, first_type, second_type>>

GetTypeCompatibilitySwapped ==
    /\ Len(compatible) = 1
    /\ compatible' = Append(compatible, get_type_compatibility(second_type, first_type))
    /\ UNCHANGED <<lexVars, parseVars, semVars, backVars, srvVars, previous, first_type, second_type>>

TypesInit ==
    /\ LexerOn({Src_Empty})
    /\ first_type \in BaseTypes
    /\ second_type \in BaseTypes
    /\ compatible = <<>>

SpecTypes == TypesInit /\ [][GetTypeCompatibility \/ GetTypeCompatibilitySwapped]_vars

\* ------------------------------------------------------------------------
\* C1: `return N` in main gives the exit code N
\*
\* What the source program does is read off its syntax tree, for the
\* statements whose course the tree fixes: declarations with a literal or no
\* initializer, cout chains of literals, blocks, and if, while and for
\* statements whose condition is an integer literal.  Ref(s) is
\*   [status |-> "next"]            s ends and the statement after it runs
\*   [status |-> "return", n |-> N] s executes `return N`
\*   [status |-> "unknown"]         anything else
\* ------------------------------------------------------------------------
RefNext == [status |-> "next", n |-> 0]
RefReturn(n) == [status |-> "return", n |-> n]
RefUnknown == [status |-> "unknown", n |-> 0]

IsIntLiteral(e) == e.node = "Literal" /\ e.type_name = S_int

\* N, for the expressions N and -N
IsInteger(e) ==
    \/ IsIntLiteral(e)
    \/ e.node = "UnaryOperation" /\ e.operator = <<"-">> /\ IsIntLiteral(e.operand)

IntegerOf(e) == IF IsIntLiteral(e) THEN e.ival ELSE -e.operand.ival

RECURSIVE IsLiteralChain(_)
IsLiteralChain(e) ==
    \/ e.node = "Identifier" /\ e.name = S_cout
    \/ IsShift(e) /\ IsLiteralChain(e.left) /\ e.right.node = "Literal"

RECURSIVE Ref(_)
RECURSIVE RefStatements(_, _)

\* A loop whose condition holds: its body returns in the first iteration,
\* or nothing is known
RefLoop(body) == IF Ref(body).status = "return" THEN Ref(body) ELSE RefUnknown

Ref(s) ==
    CASE s.node = "ReturnStatement" ->
            IF ~IsNone(s.expression) /\ IsInteger(s.expression)
            THEN RefReturn(IntegerOf(s.expression)) ELSE RefUnknown
      [] s.node = "VariableDeclaration" ->
            IF IsNone(s.initializer) \/ s.initializer.node = "Literal"
            THEN RefNext ELSE RefUnknown
      [] s.node = "ExpressionStatement" ->
            IF IsLiteralChain(s.expression) THEN RefNext ELSE RefUnknown
      [] s.node = "Block" -> RefStatements(s.statements, 1)
      [] s.node = "IfStatement" ->
            CASE ~IsIntLiteral(s.condition) -> RefUnknown
              [] IsIntLiteral(s.condition) /\ s.condition.ival # 0 -> Ref(s.then_stmt)
              [] IsIntLiteral(s.condition) /\ s.condition.ival = 0 /\ IsNone(s.else_stmt) ->
                    RefNext
              [] OTHER -> Ref(s.else_stmt)
      [] s.node = "WhileStatement" ->
            CASE ~IsIntLiteral(s.condition) -> RefUnknown
              [] IsIntLiteral(s.condition) /\ s.condition.ival = 0 -> RefNext
              [] OTHER -> RefLoop(s.body)
      [] s.node = "ForStatement" ->
            CASE ~IsNone(s.init) /\ Ref(s.init).status # "next" -> RefUnknown
              [] (IsNone(s.init) \/ Ref(s.init).status = "next") /\ IsNone(s.condition) ->
                    RefLoop(s.body)
              [] (IsNone(s.init) \/ Ref(s.init).status = "next") /\ ~IsNone(s.condition)
                    /\ IsIntLiteral(s.condition) ->
                    IF s.condition.ival = 0 THEN RefNext ELSE RefLoop(s.body)
              [] OTHER -> RefUnknown
      [] OTHER -> RefUnknown

RefStatements(statements, i) ==
    CASE i > Len(statements) -> RefNext
      [] i <= Len(statements) /\ Ref(statements[i]).status = "next" ->
            RefStatements(statements, i + 1)
      [] OTHER -> Ref(statements[i])

\* The functions named main that the program declares
C1_Mains(program) ==
    {i \in 1..Len(program.declarations) :
         /\ program.declarations[i].node = "FunctionDeclaration"
         /\ program.declarations[i].name = S_main}

\* The program declares int main() and nothing else named main
C1_DeclaresIntMain(program) ==
    /\ Cardinality(C1_Mains(program)) = 1
    /\ \A i \in C1_Mains(program) :
           /\ program.declarations[i].return_type.name = S_int
           /\ program.declarations[i].parameters = <<>>

\* What main does
C1_Main(program) == Ref(program.declarations[CHOOSE i \in C1_Mains(program) : TRUE].body)

\* The run of the generated program has ended
C1_RunEnded == runPc \in {"exited", "raised", "finished"}

\* C1: when the run of a program that declares int main() has ended and main
\* has executed `return N`, N an integer, the exit code is N
C1_ExitCodeIsReturnValue ==
    C1_RunEnded /\ C1_DeclaresIntMain(ast) /\ C1_Main(ast).status = "return" =>
        ExitCode = VInt(C1_Main(ast).n)

\* ------------------------------------------------------------------------
\* C2: the output buffer is written to stdout once on every exit path
\* ------------------------------------------------------------------------
\* C2: when the run of a program with a main function has ended by the exit
\* that the generated program makes, stdout has been written once, with what
\* the program has appended to the buffer, and that is execution_output;
\* when main has executed no return statement the exit status is 0
C2_OutputWrittenOnce ==
    result.returned /\ runPc = "exited" /\ MainFound(ast) =>
        /\ Len(run.stdout) = 1
        /\ result.execution_output = get_output(run).val.s
        /\ (~run.runtime.return_called => ExitCode = VInt(0))

\* ------------------------------------------------------------------------
\* C3: a program without a main function fails
\* ------------------------------------------------------------------------
\* C3: when compile_source_api has returned for a program that has been
\* parsed and declares no function named main, the result has success=false
\* and reports a runtime error
C3_NoMainFails ==
    result.returned /\ parsePc = "returned" /\ ~MainFound(Program(declarations)) =>
        /\ ~result.success
        /\ result.error = "Runtime Error"

\* ------------------------------------------------------------------------
\* C4: the pipeline runs forward and short-circuits
\* ------------------------------------------------------------------------
\* The analyzer has recorded an error
C4_ErrorRecorded == semPc # "idle" /\ analyzer.errors # <<>>

\* C4: the analyzer is invoked only after the parser has returned, code is
\* generated and run only after analyze has returned True, and when the
\* parser has raised or the analyzer has recorded an error, no generated
\* code is run and the result, once returned, has success=false
C4_ForwardAndShortCircuit ==
    /\ (semPc # "idle" => parsePc = "returned")
    /\ (genPc # "idle" => semPc = "returned" /\ analyzeResult)
    /\ (runPc # "idle" => genPc = "generated")
    /\ (parsePc = "raised" \/ C4_ErrorRecorded =>
            /\ genPc = "idle"
            /\ runPc = "idle"
            /\ (result.returned => ~result.success))

\* compile_source_api has returned for a program in which the analyzer has
\* recorded an error
C4_ReturnedAfterError == result.returned /\ C4_ErrorRecorded /\ semPc = "returned"

\* ------------------------------------------------------------------------
\* C11: every identifier of an accepted program has a binding at run time
\* ------------------------------------------------------------------------
\* C11: the run of a program that the analyzer has accepted never ends
\* because a name that it reads is not defined
C11_NamesResolve == runPc = "raised" => run.exc # "NameError"

\* ------------------------------------------------------------------------
\* C12: a cout chain appends its operands' texts in source order
\*
\* What the chain of a program of ChainSources does is read off its syntax
\* tree, the operands being evaluated from left to right: R = [x, out] is
\* the value of the variable x and the texts appended so far.  The function
\* g of these programs appends "g" and returns 1; with own = FALSE the text
\* that an operand appends itself is left out.  The text of a string literal
\* is what stands between the quotes of its lexeme.
\* ------------------------------------------------------------------------
RefAppend(R, text) == [R EXCEPT !.out = Append(@, text)]

RefOperand(R, e, own) ==
    CASE e.node = "Literal" /\ e.type_name = S_string ->
            RefAppend(R, SubSeq(e.sval, 2, Len(e.sval) - 1))
      [] e.node = "Literal" /\ e.type_name = S_int -> RefAppend(R, IntStr(e.ival))
      [] e.node = "Identifier" /\ e.name = S_endl -> RefAppend(R, <<"\n">>)
      [] e.node = "Identifier" /\ e.name # S_endl -> RefAppend(R, IntStr(R.x))
      [] e.node = "UnaryOperation" ->
            [RefAppend(R, IntStr(R.x)) EXCEPT !.x = @ + 1]
      [] e.node = "Assignment" ->
            [RefAppend(R, IntStr(e.value.ival)) EXCEPT !.x = e.value.ival]
      [] e.node = "FunctionCall" ->
            RefAppend(IF own THEN RefAppend(R, <<"g">>) ELSE R, <<"1">>)

RECURSIVE RefOperands(_, _, _, _)
RefOperands(R, args, i, own) ==
    IF i > Len(args) THEN R
    ELSE RefOperands(RefOperand(R, args[i], own), args, i + 1, own)

\* The program is one of the chain programs: g, and a main that declares x
\* and has one cout chain
IsChainProgram(program) ==
    /\ Len(program.declarations) = 2
    /\ program.declarations[2].node = "FunctionDeclaration"
    /\ program.declarations[2].name = S_main
    /\ Len(program.declarations[2].body.statements) = 2
    /\ program.declarations[2].body.statements[1].node = "VariableDeclaration"
    /\ program.declarations[2].body.statements[2].node = "ExpressionStatement"
    /\ IsShift(program.declarations[2].body.statements[2].expression)

\* The operands of a left-nested chain read from left to right, the stream
\* itself left out
RECURSIVE RefShiftOperands(_)
RefShiftOperands(e) ==
    IF e.node = "BinaryOperation" /\ e.operator = <<"<", "<">>
    THEN RefShiftOperands(e.left) \o <<e.right>>
    ELSE <<>>

\* The operands of the chain, in source order
ChainOf(program) == RefShiftOperands(program.declarations[2].body.statements[2].expression)

\* The texts that the chain appends
RefChain(program, own) ==
    RefOperands([x |-> program.declarations[2].body.statements[1].initializer.ival,
                 out |-> <<>>],
                ChainOf(program), 1, own).out

\* The texts in the output buffer of the run
BufferTexts ==
    [i \in 1..Len(run.runtime.output_buffer) |-> run.runtime.output_buffer[i].s]

\* C12: when the run of a chain program has ended, the output buffer holds
\* the texts of the operands in source order, each of them preceded by what
\* the evaluation of the operand has appended itself, and the side effects
\* of the operands have happened in that order
C12_OperandsInSourceOrder ==
    C1_RunEnded /\ IsChainProgram(ast) => BufferTexts = RefChain(ast, TRUE)

\* A chain in which a call of g stands between two other operands has run
C12_ChainWithCallRan ==
    /\ runPc = "exited"
    /\ IsChainProgram(ast)
    /\ Len(ChainOf(ast)) = 3
    /\ ChainOf(ast)[2].node = "FunctionCall"
    /\ ChainOf(ast)[3].node = "UnaryOperation"

\* C12 as stated: the output buffer holds the texts of the operands and
\* nothing else
C12_OperandsContiguous ==
    C1_RunEnded /\ IsChainProgram(ast) => BufferTexts = RefChain(ast, FALSE)

\* ------------------------------------------------------------------------
\* C13: a runtime error after output has been written
\* ------------------------------------------------------------------------
\* The sequence s occurs in the sequence t
Contains(t, s) ==
    \E i \in 0..(Len(t) - Len(s)) : SubSeq(t, i + 1, i + Len(s)) = s

\* C13: when the run has raised an error and the result has been returned,
\* the result has success = false and its execution_output contains the
\* text that the run had appended to the output buffer before the error
C13_OutputKeptOnError ==
    result.returned /\ runPc = "raised" =>
        /\ ~result.success
        /\ Contains(result.execution_output, Join(BufferTexts))

\* ------------------------------------------------------------------------
\* C14: concurrent calls share no state
\* ------------------------------------------------------------------------
\* What the program of the request on thread t has printed
OwnOutput(t) == [i \in 1..calls[t].request.prints |-> OwnText(t)]

\* C14: a call that has executed its program and has returned has as its
\* execution_output exactly what its own program has printed, and when both
\* calls have returned sys.stdout is the stream that it was before them
C14_CallsShareNothing ==
    /\ \A t \in Threads :
        calls[t].pc = "returned" /\ calls[t].request.outcome \in {"runtime_error", "success"}
            => calls[t].result.execution_output = OwnOutput(t)
    /\ (\A t \in Threads : calls[t].pc = "returned") => sys_stdout = Console

\* ------------------------------------------------------------------------
\* C15: a second call on the same source returns what the first returned
\* ------------------------------------------------------------------------
\* The call has ended without its run having been cut off by MaxRunSteps
C15_CallEnded == result.returned /\ runPc # "bound"

\* C15: when compile_source_api has returned for the second time on a
\* source, its execution_output and the exit code of the run are those of
\* the first call
C15_SecondCallSame ==
    C15_CallEnded /\ previous # <<>> =>
        /\ result.execution_output = previous[1].result.execution_output
        /\ result.success = previous[1].result.success
        /\ ReturnedExitCode = previous[1].exit_code

\* ------------------------------------------------------------------------
\* C16: Parser.parse terminates
\* ------------------------------------------------------------------------
\* C16: every iteration of the loop of Parser.parse consumes at least one
\* token or leaves the loop by raising a syntax error
C16_IterationConsumesOrRaises ==
    [][parsePc = "loop" /\ parseIters' = parseIters + 1
          => current' > current \/ parsePc' = "raised"]_vars

\* ------------------------------------------------------------------------
\* C17: the precedence of <<
\* ------------------------------------------------------------------------
\* The node of an operand of ShiftOperands
RefOperandNode(text) ==
    IF text = <<"1">> THEN Literal(1, <<>>, S_int) ELSE Identifier(text)

\* The tree of `cout << a op b` when << binds tighter than the relational
\* and equality operators and looser than + and -
RefShiftTree(a, op, b) ==
    IF op \in AdditiveOperators
    THEN BinaryOperation(Identifier(S_cout), <<"<", "<">>,
                         BinaryOperation(RefOperandNode(a), op, RefOperandNode(b)))
    ELSE BinaryOperation(BinaryOperation(Identifier(S_cout), <<"<", "<">>, RefOperandNode(a)),
                         op, RefOperandNode(b))

\* C17: the expression statement of `void f(){cout<< a op b ;}` is parsed
\* with << below + and - and above the relational and equality operators
C17_ShiftBelowAdditive ==
    \A a \in ShiftOperands, b \in ShiftOperands,
       op \in AdditiveOperators \cup RelationalOperators :
        parsePc = "returned" /\ source_code = ShiftSource(a, op, b)
            => declarations[1].body.statements[1].expression = RefShiftTree(a, op, b)

\* ------------------------------------------------------------------------
\* C18: increment and decrement
\* ------------------------------------------------------------------------
\* The call on a source that streams an increment or decrement of x, which
\* is 2, and returns x: it succeeds, `yielded` is what has been streamed and
\* `left` is the exit code
C18_Ran(source, yielded, left) ==
    result.returned /\ source_code = source =>
        /\ result.success
        /\ runPc = "exited"
        /\ BufferTexts = <<IntStr(yielded)>>
        /\ ExitCode = VInt(left)

\* C18: ++x and --x are accepted, change x and yield the new value; x++ and
\* x-- yield the old value and leave x changed
C18_IncrementDecrement ==
    /\ C18_Ran(Src_PreIncrement, 3, 3)
    /\ C18_Ran(Src_PreDecrement, 1, 1)
    /\ C18_Ran(Src_PostIncrement, 2, 3)
    /\ C18_Ran(Src_PostDecrement, 2, 1)

\* ------------------------------------------------------------------------
\* C19: the division of two integers
\* ------------------------------------------------------------------------
\* C19: when the run of int main(){cout<< a / b ;return 0;} has ended, what
\* has been streamed is the integer quotient of a and b, written without a
\* fractional part
C19_IntegerQuotient ==
    \A a \in Dividends, b \in Divisors :
        C1_RunEnded /\ source_code = DivisionSource(a, b)
            => BufferTexts = <<NatStr(a \div b)>>

\* ------------------------------------------------------------------------
\* C20: streaming a string literal
\* ------------------------------------------------------------------------
\* The run of the source has ended with just this text streamed
C20_Streamed(source, text) ==
    C1_RunEnded /\ source_code = source => BufferTexts = <<text>>

\* C20: cout << "a" appends a, without the quotes, and cout << "\n", the
\* literal being quote, backslash, n, quote, appends one newline character,
\* which is what cout << endl appends
C20_QuotesStrippedNewlineRead ==
    /\ C20_Streamed(Src_StreamText, <<"a">>)
    /\ C20_Streamed(Src_StreamEndl, <<"\n">>)
    /\ C20_Streamed(Src_StreamNewline, <<"\n">>)

\* ------------------------------------------------------------------------
\* C21: NEWLINE tokens are skipped
\* ------------------------------------------------------------------------
\* The tokens without the NEWLINE tokens among them
WithoutNewlines(toks) == SelectSeq(toks, LAMBDA t : t.type # "NEWLINE")

\* C21: when parse has ended on a source with a newline in it whose tokens
\* are accepted once the NEWLINE tokens are taken out, it has returned, with
\* the Program that the tokens without the NEWLINE tokens give
C21_NewlinesSkipped ==
    /\ parsePc \in {"returned", "raised"}
    /\ source_code \in NewlineSources
    /\ parse(WithoutNewlines(tokens)).status = "ok"
    => /\ parsePc = "returned"
       /\ Program(declarations) = parse(WithoutNewlines(tokens)).node

\* ------------------------------------------------------------------------
\* C22: the scope of a for statement
\* ------------------------------------------------------------------------
\* An error that reports the identifier `name` as undefined
IsUndefined(e, name) == e.kind = "UndefinedIdentifier" /\ e.s1 = name

\* C22: in the programs of SemSources the identifier i occurs only in
\* for(int i=0;i<2;i++){return i;}, whose init declares it; when analyze has
\* returned, no error reports i as undefined
C22_ForVariableResolves ==
    semPc = "returned" =>
        \A k \in 1..Len(analyzer.errors) : ~IsUndefined(analyzer.errors[k], <<"i">>)

\* ------------------------------------------------------------------------
\* C23: a call of a function that is declared later
\* ------------------------------------------------------------------------
\* C23: the call on int main(){return g();}int g(){return 3;} succeeds, and
\* the exit code is what g returns
C23_ForwardCallRuns ==
    result.returned /\ source_code = Src_ForwardCall =>
        /\ result.success
        /\ runPc = "exited"
        /\ ExitCode = VInt(3)

\* ------------------------------------------------------------------------
\* C24: get_type_compatibility
\* ------------------------------------------------------------------------
\* The place of a numeric type in the order int, float, double
RefRank(t) == CASE t = S_int -> 1 [] t = S_float -> 2 [] t = S_double -> 3

\* The promotion table: the wider of two numeric types when one of them is
\* float or double or both are int, the type itself for bool, char and
\* string paired with themselves, and no result otherwise
RefPromotion(a, b) ==
    CASE a \in {S_int, S_float, S_double} /\ b \in {S_int, S_float, S_double} ->
            IF RefRank(a) >= RefRank(b) THEN a ELSE b
      [] a = b /\ a \in {S_bool, S_char, S_string} -> a
      [] OTHER -> NoType

\* C24: what get_type_compatibility returns for a pair of base types is what
\* the promotion table holds for it, and the same for the pair the other way
\* round
C24_CommutativePromotion ==
    /\ Len(compatible) >= 1 => compatible[1] = RefPromotion(first_type, second_type)
    /\ Len(compatible) = 2 => compatible[2] = compatible[1]

\* get_type_compatibility has been called both ways on int and double
C24_BothWaysCalled ==
    /\ Len(compatible) = 2
    /\ first_type = S_int
    /\ second_type = S_double
    /\ compatible = <<S_double, S_double>>

\* ------------------------------------------------------------------------
\* C25: the expression of a return in main is evaluated once
\* ------------------------------------------------------------------------
\* C25: when the run of int g(){cout<<"g";return 3;}int main(){return g();}
\* has ended, g has written once and the exit code is what it returned
C25_ReturnEvaluatedOnce ==
    C1_RunEnded /\ source_code = Src_ReturnCallWrites =>
        /\ BufferTexts = <<<<"g">>>>
        /\ ExitCode = VInt(3)

\* C26: the condition of a while or for loop is evaluated again, with its side
\* effects, before every iteration.  In
\* int main(){int i=0;int n=0;while(i++<1){n=n+1;if(n>1){return 7;}}return n;}
\* the first evaluation compares 0 < 1 and the second 1 < 1, so the body runs
\* once and main returns n = 1.
C26_ConditionReevaluated ==
    C1_RunEnded /\ source_code = Src_WhilePostfixCondition
        => /\ runPc = "exited"
           /\ ExitCode = VInt(1)

\* C27: a variable declared in the init of a for loop, which the analyzer
\* accepts as shadowing, is distinct from the variable of the same name in the
\* function scope.  In
\* int main(){int i=5;for(int i=0;i<0;i=i+1){cout<<i;}return i;}
\* the outer i still holds 5 after the loop, so main returns 5.
C27_ShadowedVariableKept ==
    result.returned /\ source_code = Src_ForShadows
        => /\ result.success
           /\ runPc = "exited"
           /\ ExitCode = VInt(5)

\* C28: every program the analyzer accepts yields well-formed executable code:
\* the code the generator produced compiles, so no error of the generated
\* code's own syntax is raised (an empty block {} is a no-op).
C28_GeneratedCodeCompiles ==
    genPc = "generated" => PyCompile(generated_code).err = NONE

\* C29: std::cout << v << std::endl; is lexed, parsed, accepted and executed
\* successfully and produces what cout << v << endl; produces, the text of v
\* followed by one newline.  For v = 1: when the call on either of
\* int main(){std::cout<<1<<std::endl;return 0;} and
\* int main(){cout<<1<<endl;return 0;} has returned, it has succeeded and the
\* output buffer holds 1 and the newline.
C29_QualifiedAsUnqualified ==
    result.returned /\ source_code \in {Src_StdCoutStdEndl, Src_CoutEndl}
        => /\ result.success
           /\ runPc = "exited"
           /\ BufferTexts = <<<<"1">>, <<"\n">>>>

====
